---- MODULE Spec2Model ----
(***************************************************************************)
(* A model of the Gemini proxy function (src/unnamed/part_003, the         *)
(* rate-limited variant of functions/gemini-proxy.js): one inbound request *)
(* handled by exports.handler, with candidate fallback, bounded retry,     *)
(* strict recovery, auto-continuation and the SSE relay.                   *)
(*                                                                         *)
(* Each action is the code that runs between two suspension points of the  *)
(* handler (an awaited fetch, an awaited sleep, an awaited reader.read()). *)
(* Text is a sequence of characters (a non-ASCII one is named by its code  *)
(* point).  Time is in milliseconds since `started`; the clock saturates   *)
(* at MaxClock, which is at least every clamped timeout_ms the requests    *)
(* carry, so timeLeft is exact.                                            *)
(***************************************************************************)
EXTENDS Integers, Sequences, FiniteSets, TLC

(* ------------------------------ Config -------------------------------- *)
MAX_TRIES == 3
BASE_BACKOFF_MS == 650
DEFAULT_TIMEOUT_MS == 28000
RATE_WINDOW_MS == 600000
RATE_MAX_REQ == 60
MIN_TIMEOUT_MS == 1000
MAX_TIMEOUT_MS == 29000
JITTER_SPAN == 400
CONT_MARGIN_MS == 2500
MIN_CHUNKS == 1
MAX_CHUNKS_CEIL == 12
DEFAULT_MAX_CHUNKS == 4
TAIL_CHARS == 80
HEAD_CHARS == 200
HEARTBEAT_MS == 5000

(* ------------------------------ Bounds -------------------------------- *)
\* how many entries of the model pool the model keeps
PoolLen == 2
\* the clock saturates here
MaxClock == 4000

FULL_MODEL_POOL ==
  << "gemini-1.5-pro", "gemini-1.5-pro-latest", "gemini-2.0-flash",
     "gemini-1.5-flash", "gemini-2.0-flash-exp" >>

MODEL_POOL == SubSeq(FULL_MODEL_POOL, 1, PoolLen)

(* ------------------------------ Helpers ------------------------------- *)
Min2(a, b) == IF a <= b THEN a ELSE b
Max2(a, b) == IF a >= b THEN a ELSE b

\* A caller-supplied number is <<n>>; <<>> is a value Number.isFinite rejects.
clamp(n, min, max, def) ==
  LET v == IF Len(n) = 1 THEN n[1] ELSE def
  IN  Max2(min, Min2(max, v))

timeLeft(elapsed, total) == Max2(0, total - elapsed)

\* a retry test that takes every error status for a transient one
shouldRetryAnyError(status) == status >= 400

shouldRetry(status) == status = 429 \/ (status >= 500 /\ status <= 599)

\* a status mapping that forgets the 5xx row
mapStatusPassthrough(s) == IF s = 429 THEN 429 ELSE IF s = 0 THEN 500 ELSE s

mapStatus(s) ==
  IF s = 429 THEN 429
  ELSE IF s >= 500 THEN 502
  ELSE IF s = 0 THEN 500 ELSE s

IsOkStatus(s) == s >= 200 /\ s <= 299

\* sleep(attempt): base * 2^(attempt-1) + jitter
RECURSIVE Pow2(_)
Pow2(k) == IF k <= 0 THEN 1 ELSE 2 * Pow2(k - 1)
\* a backoff one power of two ahead
sleepMsNextPower(attempt, jitter) == BASE_BACKOFF_MS * Pow2(attempt) + jitter

sleepMs(attempt, jitter) == BASE_BACKOFF_MS * Pow2(attempt - 1) + jitter

(* ------------------------------- Text --------------------------------- *)
WS == {" ", "\n"}
NL == "\n"
\* U+2026, the horizontal ellipsis, and an Arabic letter (U+0600..U+06FF)
ELLIPSIS == "U+2026"
AIN == "U+0639"
ARABIC == {AIN}

RECURSIVE TrimStart(_)
TrimStart(s) == IF s # <<>> /\ Head(s) \in WS THEN TrimStart(Tail(s)) ELSE s

RECURSIVE TrimEnd(_)
TrimEnd(s) ==
  IF s # <<>> /\ s[Len(s)] \in WS THEN TrimEnd(SubSeq(s, 1, Len(s) - 1)) ELSE s

Trim(s) == TrimEnd(TrimStart(s))

\* s.slice(0, n) and s.slice(-n)
SliceHead(s, n) == SubSeq(s, 1, Min2(n, Len(s)))
SliceTail(s, n) == SubSeq(s, Max2(1, Len(s) - n + 1), Len(s))
SliceFrom(s, n) == SubSeq(s, n + 1, Len(s))

EndsWith(s, suf) ==
  Len(suf) <= Len(s) /\ SubSeq(s, Len(s) - Len(suf) + 1, Len(s)) = suf

StartsWith(s, pre) == Len(pre) <= Len(s) /\ SubSeq(s, 1, Len(pre)) = pre

RECURSIVE JoinNL(_)
JoinNL(parts) ==
  IF parts = <<>> THEN <<>>
  ELSE IF Len(parts) = 1 THEN parts[1]
  ELSE parts[1] \o <<NL>> \o JoinNL(Tail(parts))

hasArabic(s) == \E i \in 1..Len(s) : s[i] \in ARABIC

(* ----------------------- Auto-continue helpers ------------------------ *)
UpperToLower ==
  [c \in {"C", "O", "N", "T", "I", "U", "E", "D", "B"} |->
     CASE c = "C" -> "c" [] c = "O" -> "o" [] c = "N" -> "n" [] c = "T" -> "t"
       [] c = "I" -> "i" [] c = "U" -> "u" [] c = "E" -> "e" [] c = "D" -> "d"
       [] c = "B" -> "b"]
Lower(c) == IF c \in DOMAIN UpperToLower THEN UpperToLower[c] ELSE c
LowerAll(s) == [i \in 1..Len(s) |-> Lower(s[i])]

\* \w of a JavaScript regular expression without the u flag
WordChars ==
  {"a", "b", "c", "d", "e", "f", "g", "h", "i", "j", "k", "l", "m", "n", "o",
   "p", "q", "r", "s", "t", "u", "v", "w", "x", "y", "z", "_",
   "C", "O", "N", "T", "I", "U", "E", "D", "B"}

continued_ == <<"c", "o", "n", "t", "i", "n", "u", "e", "d">>
continue_ == <<"c", "o", "n", "t", "i", "n", "u", "e">>

\* the subject of `word[:.]?$`: the tail with one trailing ":" or "." dropped,
\* or the tail itself
DropMark(t) ==
  IF t # <<>> /\ t[Len(t)] \in {":", "."} THEN SubSeq(t, 1, Len(t) - 1) ELSE t

\* /\bcontinue\b[:.]?$/i on t
EndsWithWord(t, w) ==
  /\ EndsWith(LowerAll(t), w)
  /\ (Len(t) = Len(w) \/ t[Len(t) - Len(w)] \notin WordChars)

shouldContinue(text) ==
  IF text = <<>> THEN FALSE
  ELSE LET tail == Trim(SliceTail(text, TAIL_CHARS))
       IN  \/ EndsWith(tail, <<ELLIPSIS>>)
           \/ EndsWith(LowerAll(tail), continued_)
           \/ EndsWith(LowerAll(DropMark(tail)), continued_)
           \/ EndsWith(tail, <<"-">>)
           \/ EndsWithWord(tail, continue_)
           \/ EndsWithWord(DropMark(tail), continue_)

\* a dedup that keeps the white space after the overlap
dedupeContinuationNoTrim(prev, next) ==
  IF next = <<>> THEN <<>>
  ELSE LET head == SliceHead(next, HEAD_CHARS)
       IN  IF prev # <<>> /\ EndsWith(prev, head)
           THEN SliceFrom(next, Len(head))
           ELSE next

dedupeContinuation(prev, next) ==
  IF next = <<>> THEN <<>>
  ELSE LET head == SliceHead(next, HEAD_CHARS)
       IN  IF prev # <<>> /\ EndsWith(prev, head)
           THEN TrimStart(SliceFrom(next, Len(head)))
           ELSE next

\* a loop that keeps only the latest continuation
appendChunkOverwrites(text, next) ==
  LET append == dedupeContinuation(text, next)
  IN  IF append # <<>> THEN append ELSE text

\* text += (append ? ("\n" + append) : "")
appendChunk(text, next) ==
  LET append == dedupeContinuation(text, next)
  IN  IF append # <<>> THEN text \o <<NL>> \o append ELSE text

(* ------------------- JSON enforcement / finalization ------------------ *)
\* The characters of the model's texts: no digit and no backslash, so a JSON
\* value is an object, an array, a string without escapes, true, false or null.
QUOTE == "\""
\* U+0060, the grave accent
BACKTICK == "U+0060"
fence_ == <<BACKTICK, BACKTICK, BACKTICK>>
fenceJson_ == fence_ \o <<"j", "s", "o", "n">>
true_ == <<"t", "r", "u", "e">>
false_ == <<"f", "a", "l", "s", "e">>
null_ == <<"n", "u", "l", "l">>

\* s.replace(/(3 grave accents)json|(3 grave accents)/g, "")
RECURSIVE StripFences(_)
StripFences(s) ==
  IF s = <<>> THEN <<>>
  ELSE IF StartsWith(s, fenceJson_) THEN StripFences(SliceFrom(s, Len(fenceJson_)))
  ELSE IF StartsWith(s, fence_) THEN StripFences(SliceFrom(s, Len(fence_)))
  ELSE <<Head(s)>> \o StripFences(Tail(s))

\* s.indexOf(c) and s.lastIndexOf(c), 1-based; 0 when absent
IndexOf(s, c) ==
  IF \E i \in 1..Len(s) : s[i] = c
  THEN CHOOSE i \in 1..Len(s) : s[i] = c /\ \A j \in 1..(i - 1) : s[j] # c
  ELSE 0
LastIndexOf(s, c) ==
  IF \E i \in 1..Len(s) : s[i] = c
  THEN CHOOSE i \in 1..Len(s) : s[i] = c /\ \A j \in (i + 1)..Len(s) : s[j] # c
  ELSE 0

RECURSIVE SkipWS(_, _)
SkipWS(s, i) == IF i <= Len(s) /\ s[i] \in WS THEN SkipWS(s, i + 1) ELSE i

ParseFail == [ok |-> FALSE, next |-> 0, out |-> <<>>]

\* a string token starting at s[i] = QUOTE: up to the next quote, no line break
ParseString(s, i) ==
  LET close == {j \in (i + 1)..Len(s) : s[j] = QUOTE}
  IN  IF close = {} THEN ParseFail
      ELSE LET j == CHOOSE k \in close : \A l \in close : k <= l
           IN  IF \E k \in (i + 1)..(j - 1) : s[k] = NL THEN ParseFail
               ELSE [ok |-> TRUE, next |-> j + 1, out |-> SubSeq(s, i, j)]

ParseLiteral(s, i, lit) ==
  IF SubSeq(s, i, Min2(Len(s), i + Len(lit) - 1)) = lit
  THEN [ok |-> TRUE, next |-> i + Len(lit), out |-> lit]
  ELSE ParseFail

\* an object keeps one member per key: a repeated key overwrites the value
\* and keeps the position of its first occurrence
PutMember(ms, k, v) ==
  IF \E n \in 1..Len(ms) : ms[n].k = k
  THEN [n \in 1..Len(ms) |-> IF ms[n].k = k THEN [k |-> k, v |-> v] ELSE ms[n]]
  ELSE Append(ms, [k |-> k, v |-> v])

RECURSIVE WriteMembers(_)
WriteMembers(ms) ==
  IF ms = <<>> THEN <<>>
  ELSE ms[1].k \o <<":">> \o ms[1].v
       \o (IF Len(ms) > 1 THEN <<",">> ELSE <<>>) \o WriteMembers(Tail(ms))

RECURSIVE ParseValue(_, _)
RECURSIVE ParseMembers(_, _, _)
RECURSIVE ParseElements(_, _, _)

\* after "{" or ",": "key" : value, then "," or "}"
ParseMembers(s, i, ms) ==
  LET a == SkipWS(s, i)
  IN  IF a > Len(s) \/ s[a] # QUOTE THEN ParseFail
      ELSE LET key == ParseString(s, a)
           IN  IF ~key.ok THEN ParseFail
               ELSE LET c == SkipWS(s, key.next)
                    IN  IF c > Len(s) \/ s[c] # ":" THEN ParseFail
                        ELSE LET val == ParseValue(s, c + 1)
                             IN  IF ~val.ok THEN ParseFail
                                 ELSE LET e == SkipWS(s, val.next)
                                          all == PutMember(ms, key.out, val.out)
                                      IN  IF e > Len(s) THEN ParseFail
                                          ELSE IF s[e] = "," THEN ParseMembers(s, e + 1, all)
                                          ELSE IF s[e] = "}"
                                          THEN [ok |-> TRUE, next |-> e + 1,
                                                out |-> <<"{">> \o WriteMembers(all) \o <<"}">>]
                                          ELSE ParseFail

\* after "[" or ",": value, then "," or "]"
ParseElements(s, i, acc) ==
  LET val == ParseValue(s, i)
  IN  IF ~val.ok THEN ParseFail
      ELSE LET e == SkipWS(s, val.next)
               all == acc \o (IF acc = <<>> THEN <<>> ELSE <<",">>) \o val.out
           IN  IF e > Len(s) THEN ParseFail
               ELSE IF s[e] = "," THEN ParseElements(s, e + 1, all)
               ELSE IF s[e] = "]"
               THEN [ok |-> TRUE, next |-> e + 1, out |-> <<"[">> \o all \o <<"]">>]
               ELSE ParseFail

\* one JSON value from s[i]; out is JSON.stringify of the parsed value
ParseValue(s, i) ==
  LET a == SkipWS(s, i)
  IN  IF a > Len(s) THEN ParseFail
      ELSE IF s[a] = "{"
      THEN LET b == SkipWS(s, a + 1)
           IN  IF b <= Len(s) /\ s[b] = "}"
               THEN [ok |-> TRUE, next |-> b + 1, out |-> <<"{", "}">>]
               ELSE ParseMembers(s, a + 1, <<>>)
      ELSE IF s[a] = "["
      THEN LET b == SkipWS(s, a + 1)
           IN  IF b <= Len(s) /\ s[b] = "]"
               THEN [ok |-> TRUE, next |-> b + 1, out |-> <<"[", "]">>]
               ELSE ParseElements(s, a + 1, <<>>)
      ELSE IF s[a] = QUOTE THEN ParseString(s, a)
      ELSE IF s[a] = "t" THEN ParseLiteral(s, a, true_)
      ELSE IF s[a] = "f" THEN ParseLiteral(s, a, false_)
      ELSE IF s[a] = "n" THEN ParseLiteral(s, a, null_)
      ELSE ParseFail

\* JSON.parse(raw), as [ok, json]: json is the value in its JSON.stringify form
JSONparse(raw) ==
  LET v == ParseValue(raw, 1)
  IN  IF v.ok /\ SkipWS(raw, v.next) = Len(raw) + 1
      THEN [ok |-> TRUE, json |-> v.out]
      ELSE [ok |-> FALSE, json |-> <<>>]

tryExtractJson(s) ==
  IF s = <<>> THEN [ok |-> FALSE, json |-> <<>>]
  ELSE LET raw0 == Trim(StripFences(s))
           first == IndexOf(raw0, "{")
           last == LastIndexOf(raw0, "}")
           raw == IF first >= 1 /\ last > first THEN SubSeq(raw0, first, last) ELSE raw0
       IN  JSONparse(raw)

NOTE_AR == "**NOTE-AR**\n\n"
NOTE_EN == "**Note:** Respond in English only.\n\n"

\* the note is kept as one element in front of the text
mirrorLanguage(text, lang) ==
  IF text = <<>> THEN text
  ELSE IF lang = "ar" /\ hasArabic(text) THEN text
  ELSE IF lang = "en" /\ ~hasArabic(text) THEN text
  ELSE IF lang = "ar" THEN <<NOTE_AR>> \o text ELSE <<NOTE_EN>> \o text

expectingJson(expect, mode) == expect = "json" \/ mode = "plan" \/ mode = "qa"

finalize(text, lang, expect, mode) ==
  IF expectingJson(expect, mode)
  THEN LET repaired == tryExtractJson(text)
       IN  IF repaired.ok THEN repaired.json ELSE text
  ELSE mirrorLanguage(text, lang)

(* ----------------------------- Requests ------------------------------- *)
GUARD == "**GUARDRAILS**\n\n---\n"
SEED_DEFAULT == "**BEGIN-NOW**"
MAX_MESSAGES == 64
MAX_TEXT_CHARS == 24000
CONTINUE_AR == "**CONTINUE-AR**"
CONTINUE_EN == "**CONTINUE-EN**"
continuePrompt(lang) == IF lang = "ar" THEN CONTINUE_AR ELSE CONTINUE_EN
REQ_ID == "REQ-1"

\* wrapPrompt(text, guard): the guardrail head is kept as one element
wrapPrompt(t) == <<GUARD>> \o t

\* line 117: a messages value that is not an array is replaced by []
arrayOf(r) == IF r.messagesIsArray THEN r.messages ELSE <<>>

\* lines 117-124: the last MAX_MESSAGES messages, contents clamped
sanitize(messages) ==
  LET kept == SliceTail(messages, MAX_MESSAGES)
  IN  [i \in 1..Len(kept) |->
         [kept[i] EXCEPT !.content = SliceHead(@, MAX_TEXT_CHARS)]]

safeRole(r) == IF r \in {"user", "model", "system"} THEN r ELSE "user"

\* limitParts over the text parts of one message
RECURSIVE limitText(_, _)
limitText(parts, used) ==
  IF parts = <<>> THEN <<>>
  ELSE LET chunk == SliceHead(parts[1], Max2(0, MAX_TEXT_CHARS - used))
       IN  IF chunk = <<>> THEN limitText(Tail(parts), used)
           ELSE IF used + Len(chunk) >= MAX_TEXT_CHARS THEN <<chunk>>
           ELSE <<chunk>> \o limitText(Tail(parts), used + Len(chunk))

\* the map of normalizeMessages, with its `injected` flag threaded through
RECURSIVE normalizeFrom(_, _)
normalizeFrom(messages, injected) ==
  IF messages = <<>> THEN <<>>
  ELSE LET m == messages[1]
           raw == IF Trim(m.content) # <<>> THEN m.content ELSE <<>>
           inject == ~injected /\ m.role = "user"
           parts == IF inject THEN <<wrapPrompt(raw)>>
                    ELSE IF raw # <<>> THEN <<raw>> ELSE <<>>
           turn == [role |-> safeRole(m.role), parts |-> limitText(parts, 0)]
           rest == normalizeFrom(Tail(messages), injected \/ inject)
       IN  IF turn.parts # <<>> THEN <<turn>> \o rest ELSE rest

normalizeMessages(messages) == normalizeFrom(messages, FALSE)

\* a handler without the fallback turn of lines 135-138
buildContentsNoFallback(r) == normalizeMessages(sanitize(arrayOf(r)))

\* lines 132-138: the normalized messages, or the single fallback turn
buildContents(r) ==
  LET c == normalizeMessages(sanitize(arrayOf(r)))
      seed == IF Trim(r.system) # <<>> THEN Trim(r.system) ELSE <<SEED_DEFAULT>>
  IN  IF c # <<>> THEN c ELSE << [role |-> "user", parts |-> <<wrapPrompt(seed)>>] >>

RECURSIVE sampleFrom(_)
sampleFrom(messages) ==
  IF messages = <<>> THEN <<>>
  ELSE IF Len(messages) = 1 THEN messages[1].content
  ELSE messages[1].content \o <<NL>> \o sampleFrom(Tail(messages))

chooseLang(force, smp) ==
  IF force \in {"ar", "en"} THEN force
  ELSE IF hasArabic(smp) THEN "ar" ELSE "en"

langOf(r) == chooseLang(r.force_lang, SliceHead(sampleFrom(sanitize(arrayOf(r))), 4000))

RECURSIVE Dedup(_, _)
Dedup(s, seen) ==
  IF s = <<>> THEN <<>>
  ELSE IF Head(s) \in seen THEN Dedup(Tail(s), seen)
  ELSE <<Head(s)>> \o Dedup(Tail(s), seen \cup {Head(s)})

\* a candidate list built without the Set
candidatesOfKeepsDuplicate(r) ==
  IF r.model = "auto" \/ r.model = "" THEN MODEL_POOL
  ELSE <<r.model>> \o MODEL_POOL

\* Array.from(new Set([model, ...MODEL_POOL]))
candidatesOf(r) ==
  IF r.model = "auto" \/ r.model = "" THEN MODEL_POOL
  ELSE Dedup(<<r.model>> \o MODEL_POOL, {})

timeoutOf(r) == clamp(r.timeout_ms, MIN_TIMEOUT_MS, MAX_TIMEOUT_MS, DEFAULT_TIMEOUT_MS)
maxChunksOf(r) == clamp(r.max_chunks, MIN_CHUNKS, MAX_CHUNKS_CEIL, DEFAULT_MAX_CHUNKS)
\* tuneGeneration(mode, expect), with temperature and topP in hundredths
tuneGeneration(mode, expect) ==
  IF mode = "qa" \/ expect = "json"
  THEN [temperature |-> 22, topP |-> 90, maxOutputTokens |-> 4096,
        candidateCount |-> 1, responseMimeType |-> "application/json"]
  ELSE IF mode = "plan"
  THEN [temperature |-> 28, topP |-> 88, maxOutputTokens |-> 6144,
        candidateCount |-> 1, responseMimeType |-> "application/json"]
  ELSE IF mode = "image_brief"
  THEN [temperature |-> 25, topP |-> 85, maxOutputTokens |-> 1536,
        candidateCount |-> 1, responseMimeType |-> "text/plain"]
  ELSE [temperature |-> 60, topP |-> 90, maxOutputTokens |-> 4096,
        candidateCount |-> 1, responseMimeType |-> "text/plain"]

\* the generationConfig of the body of a call: strictCfg for the strict
\* recovery (lines 217-218), the request's own for every other call (line 140)
generationConfigOf(r, shape) ==
  IF shape = "strict" THEN tuneGeneration("qa", "json")
  ELSE tuneGeneration(r.mode, r.expect)

wantsStrict(r) == r.mode = "plan" \/ r.mode = "qa" \/ r.expect = "json"

(* --------------------------- Input domains ---------------------------- *)
Methods == {"POST", "OPTIONS", "GET"}
ModelInputs == {"auto", "my-model"}
TimeoutInputs == {<<0>>, <<4000>>}
ArabicMessage == [role |-> "user", content |-> <<AIN>>]
\* mode with the messages sent along
ModeInputs ==
  { [mode |-> "default", messages |-> <<>>],
    [mode |-> "default", messages |-> <<ArabicMessage>>],
    [mode |-> "qa", messages |-> <<>>] }
\* long with max_chunks: <<>> is a missing or non-numeric max_chunks
LongInputs ==
  { [long |-> FALSE, max_chunks |-> <<>>], [long |-> TRUE, max_chunks |-> <<0>>],
    [long |-> TRUE, max_chunks |-> <<3>>], [long |-> TRUE, max_chunks |-> <<>>] }
\* a max_chunks above the ceiling
ManyChunks == <<13>>

DefaultRequest ==
  [method |-> "POST", hasKey |-> TRUE, bodyOk |-> TRUE, system |-> <<>>,
   messages |-> <<>>, messagesIsArray |-> TRUE, prompt |-> <<>>, model |-> "auto",
   mode |-> "default", force_lang |-> "",
   stream |-> FALSE, long |-> TRUE, max_chunks |-> <<>>,
   timeout_ms |-> <<>>, expect |-> ""]

\* the requests the handler is given: the rejected ones, the unary ones, one
\* that asks for more chunks than the ceiling, and the streaming ones (whose
\* path reads neither mode, long nor max_chunks)
Requests ==
  {[DefaultRequest EXCEPT !.method = m] : m \in Methods \ {"POST"}}
  \cup {[DefaultRequest EXCEPT !.hasKey = FALSE], [DefaultRequest EXCEPT !.bodyOk = FALSE]}
  \cup {[DefaultRequest EXCEPT !.model = m, !.timeout_ms = t, !.mode = md.mode,
                               !.messages = md.messages, !.long = l.long,
                               !.max_chunks = l.max_chunks] :
          m \in ModelInputs, t \in TimeoutInputs, md \in ModeInputs, l \in LongInputs}
  \cup {[DefaultRequest EXCEPT !.max_chunks = ManyChunks, !.timeout_ms = t] :
          t \in TimeoutInputs}
  \cup {[DefaultRequest EXCEPT !.stream = TRUE, !.model = m, !.timeout_ms = t] :
          m \in ModelInputs, t \in TimeoutInputs}

\* the longest messages array of the requests below
MaxMsgs == 3
\* message entries: a user message, a blank one, one with no string content,
\* a model message, one that normalizes to nothing, one with an unknown
\* role, and an Arabic one
MessageInputs ==
  { [role |-> "user", content |-> <<"a">>], [role |-> "user", content |-> <<" ">>],
    [role |-> "user", content |-> <<>>], [role |-> "model", content |-> <<"a">>],
    [role |-> "model", content |-> <<>>], [role |-> "tool", content |-> <<"a">>],
    ArabicMessage }
MessageLists == UNION { [1..n -> MessageInputs] : n \in 0..MaxMsgs }
SystemInputs == { <<>>, <<" ">>, <<" ", "s", " ">> }
AnyModelInputs == {"auto", "", "my-model"} \cup {MODEL_POOL[i] : i \in 1..Len(MODEL_POOL)}

\* every kind of request body: the requests above, every messages value with
\* every system string, and every way to name a model
AnyRequests ==
  Requests
  \cup {[DefaultRequest EXCEPT !.messages = ms, !.system = sy, !.messagesIsArray = ia] :
          ms \in MessageLists, sy \in SystemInputs, ia \in BOOLEAN}
  \cup {[DefaultRequest EXCEPT !.model = m, !.stream = st] :
          m \in AnyModelInputs, st \in BOOLEAN}
  \cup {[DefaultRequest EXCEPT !.method = m, !.hasKey = k, !.bodyOk = b] :
          m \in Methods, k \in BOOLEAN, b \in BOOLEAN}

\* what the upstream can answer to one call
FailStatuses == {400, 429, 500}
OkTexts == { <<"{", "}">>, <<"a", ELLIPSIS>>, <<"-", "a", ELLIPSIS>> }
Bodies == { <<>>, << <<" ">> >> } \cup { <<t>> : t \in OkTexts }
Outcomes ==
  [kind : {"net"}, status : {0}, parts : {<<>>}]
  \cup [kind : {"http"}, status : FailStatuses, parts : {<<>>}]
  \cup [kind : {"http"}, status : {200}, parts : Bodies]
FetchDurations == {0}
Jitters == {0, JITTER_SPAN - 1}

(* ------------------------------- State -------------------------------- *)
VARIABLES
  pc,        \* where the handler is: idle, first, strict, cont, stream, relay, done
  ipc,       \* where the retry loop is: none, inflight, sleeping
  req,       \* the request being handled
  bucket,    \* the rate limiter's entry for the client key
  now,       \* Date.now() - started
  mi,        \* index of the current candidate (from 1)
  inv,       \* url, timeout and attempt of the running tryJSONOnce / tryStreamOnce
  first,     \* the result of the first attempt on the current candidate
  text,      \* accumulated text
  chunks,    \* chunk counter of the continuation loop
  contents,  \* the turn sequence
  resp,      \* the response returned to the caller
  tries,     \* history: fetches issued by the running retry loop
  tried,     \* history: the models fetched, in order, repeats of one model merged
  lastCall,  \* history: the last fetch issued
  lastEnd,   \* history: how the last fetch ended
  atEval,    \* history: the budget when the continuation condition was last
             \* evaluated: "low" (timeLeft <= 2500), "high", or "none"
  events,    \* the SSE events yielded so far
  buffer,    \* the relay's line buffer
  sinceHb,   \* Date.now() - hb, up to HEARTBEAT_MS + 1
  reads,     \* reader.read() calls settled
  received,  \* history: the upstream data the reads delivered, decoded
  firstWait  \* history: how long the first read took

cvars == <<tries, tried, lastCall>>
hvars == <<pc, ipc, mi, inv, first, text, chunks, contents, resp, cvars>>
rvars == <<events, buffer, sinceHb, reads, received, firstWait>>
vars == <<pc, ipc, req, bucket, now, mi, inv, first, text, chunks, contents,
          resp, tries, tried, lastCall, lastEnd, atEval, events, buffer,
          sinceHb, reads, received, firstWait>>

NoUpstream == [error |-> "", status |-> 0]
NoResult == [ok |-> FALSE, statusCode |-> 0, error |-> NoUpstream, text |-> <<>>]
NoInv == [model |-> "", stream |-> FALSE, timeout |-> 0, attempt |-> 0]
NoResp ==
  [statusCode |-> 0, error |-> "", requestId |-> "", modelTried |-> "",
   model |-> "", lang |-> "", text |-> <<>>, status |-> 0, details |-> FALSE,
   upstream |-> NoUpstream, retry_after_seconds |-> 0, body |-> <<>>]
NoBucket == [count |-> 0, resetAt |-> 0]
NoCall == [model |-> "", stream |-> FALSE, shape |-> "", attempt |-> 0]
NoEnd == [class |-> "none", model |-> "", shape |-> "", attempt |-> 0]

Tick(d) == Min2(now + d, MaxClock)
BudgetAt(t) == IF timeoutOf(req) - t <= CONT_MARGIN_MS THEN "low" ELSE "high"

(* ------------------------------ Responses ----------------------------- *)
\* ok(h, id, text, model, lang, started, usage)
ok(t, m, lang) ==
  [NoResp EXCEPT !.statusCode = 200, !.text = t, !.model = m, !.lang = lang,
                 !.requestId = REQ_ID]

\* the error of the last candidate, lines 223-228
upstreamError(r, m) ==
  [NoResp EXCEPT !.statusCode = IF r.statusCode # 0 THEN r.statusCode ELSE 502,
                 !.error = "Upstream error", !.requestId = REQ_ID,
                 !.modelTried = m,
                 !.upstream = IF r.error # NoUpstream THEN r.error
                              ELSE [error |-> "Unknown upstream error", status |-> 0]]

\* collectUpstream(status, data, rawText, includeRaw)
collectUpstream(status) == [error |-> "Upstream rejected", status |-> status]

(* --------------------------- Rate limiting ---------------------------- *)
\* rateCheck(headers) at time 0 of the request: [ok, retryAfter, bucket]
rateCheck(e) ==
  IF e = NoBucket \/ 0 > e.resetAt
  THEN [ok |-> TRUE, retryAfter |-> 0,
        bucket |-> [count |-> 1, resetAt |-> RATE_WINDOW_MS]]
  ELSE IF e.count >= RATE_MAX_REQ
  THEN [ok |-> FALSE, retryAfter |-> (e.resetAt + 999) \div 1000, bucket |-> e]
  ELSE [ok |-> TRUE, retryAfter |-> 0, bucket |-> [e EXCEPT !.count = @ + 1]]

\* a limiter that refuses only above the maximum
rateCheckAtAbove(e, t) ==
  IF e = NoBucket \/ t > e.resetAt
  THEN [ok |-> TRUE, retryAfter |-> 0,
        bucket |-> [count |-> 1, resetAt |-> t + RATE_WINDOW_MS]]
  ELSE IF e.count > RATE_MAX_REQ
  THEN [ok |-> FALSE, retryAfter |-> (e.resetAt - t + 999) \div 1000, bucket |-> e]
  ELSE [ok |-> TRUE, retryAfter |-> 0, bucket |-> [e EXCEPT !.count = @ + 1]]

\* rateCheck(headers) when Date.now() is t and bucket.get(k) is e (NoBucket
\* for a key the Map does not have): [ok, retryAfter, bucket], where bucket
\* is the entry the Map has for k afterwards
rateCheckAt(e, t) ==
  IF e = NoBucket \/ t > e.resetAt
  THEN [ok |-> TRUE, retryAfter |-> 0,
        bucket |-> [count |-> 1, resetAt |-> t + RATE_WINDOW_MS]]
  ELSE IF e.count >= RATE_MAX_REQ
  THEN [ok |-> FALSE, retryAfter |-> (e.resetAt - t + 999) \div 1000, bucket |-> e]
  ELSE [ok |-> TRUE, retryAfter |-> 0, bucket |-> [e EXCEPT !.count = @ + 1]]

(* -------------------------- Network and retry ------------------------- *)
\* one fetch is issued; the history records the model, the call shape and
\* the try.  The clock does not move while a fetch is in flight, so in a state
\* with a fetch in flight `now` is the time the fetch was issued.
Issue(m, isStream, shape, attempt) ==
  /\ lastCall' = [model |-> m, stream |-> isStream, shape |-> shape,
                  attempt |-> attempt]
  /\ tried' = IF tried # <<>> /\ tried[Len(tried)] = m THEN tried ELSE Append(tried, m)
  /\ tries' = IF attempt = 1 THEN 1 ELSE tries + 1

\* tryJSONOnce / tryStreamOnce is entered and its first fetch issued
Begin(m, isStream, shape, t, total) ==
  /\ now' = t
  /\ inv' = [model |-> m, stream |-> isStream, timeout |-> timeLeft(t, total),
             attempt |-> 1]
  /\ ipc' = "inflight"
  /\ Issue(m, isStream, shape, 1)

\* the ways the fetch in flight can end: an answer before the abort timer, a
\* network error before it, or the abort itself.  An answer or a network
\* error comes at once; time passes in the backoff sleeps and in aborted calls.
FetchEnds ==
  {e \in [o : Outcomes, d : FetchDurations \cup {inv.timeout}] :
     IF e.o.kind = "http" THEN e.d \in FetchDurations /\ e.d < inv.timeout
     ELSE (e.d \in FetchDurations /\ e.d < inv.timeout) \/ e.d = inv.timeout}

\* how a fetch ended, by the classes of the outcome: "retryable" (429, 5xx,
\* network or timeout), "terminal" (another non-2xx status), "empty" (a 2xx
\* answer to a unary call with no text) or "ok"
EndOf(o) ==
  [class |-> IF o.kind = "net" THEN "retryable"
             ELSE IF o.status = 429 \/ (o.status >= 500 /\ o.status <= 599)
             THEN "retryable"
             ELSE IF o.status < 200 \/ o.status > 299 THEN "terminal"
             ELSE IF ~lastCall.stream /\ Trim(JoinNL(o.parts)) = <<>> THEN "empty"
             ELSE "ok",
   model |-> lastCall.model, shape |-> lastCall.shape, attempt |-> lastCall.attempt]

\* a retry loop whose bound is tested with <= where the code has <
willRetryOnceMore(o, attempt) ==
  /\ attempt <= MAX_TRIES
  /\ \/ o.kind = "net"
     \/ o.kind = "http" /\ ~IsOkStatus(o.status) /\ shouldRetry(o.status)

\* the branches of both retry loops that sleep and try again
willRetry(o, attempt) ==
  /\ attempt < MAX_TRIES
  /\ \/ o.kind = "net"
     \/ o.kind = "http" /\ ~IsOkStatus(o.status) /\ shouldRetry(o.status)

\* the text tryJSONOnce extracts from a 2xx body
extractText(parts) == Trim(JoinNL(parts))

\* what tryJSONOnce returns when it does not retry
jsonResult(o) ==
  IF o.kind = "net"
  THEN [NoResult EXCEPT !.statusCode = 500,
                        !.error = [error |-> "Network/timeout", status |-> 0]]
  ELSE IF ~IsOkStatus(o.status)
  THEN [NoResult EXCEPT !.statusCode = mapStatus(o.status),
                        !.error = collectUpstream(o.status)]
  ELSE IF extractText(o.parts) = <<>>
  THEN [NoResult EXCEPT !.statusCode = 502,
                        !.error = [error |-> "Empty/blocked response", status |-> 0]]
  ELSE [NoResult EXCEPT !.ok = TRUE, !.text = extractText(o.parts)]

\* what tryStreamOnce returns when it does not retry: [ok, errorResp]
streamResult(o) ==
  IF o.kind = "net"
  THEN [ok |-> FALSE,
        errorResp |-> [NoResp EXCEPT !.statusCode = 500, !.error = "Network/timeout",
                                     !.details = TRUE]]
  ELSE IF ~IsOkStatus(o.status)
  THEN [ok |-> FALSE,
        errorResp |-> [NoResp EXCEPT !.statusCode = mapStatus(o.status),
                                     !.error = "Upstream rejected",
                                     !.status = o.status]]
  ELSE [ok |-> TRUE, errorResp |-> NoResp]

\* a test that takes every failure for a blocked answer
blockedRxAnyError(e) == e # ""

\* /Empty\/blocked|safety/i on the error strings tryJSONOnce produces
blockedRx(e) == e = "Empty/blocked response"

(* ------------------------------ Handler ------------------------------- *)
\* the handler returns r: its retry loop and its clock reading are gone
Return(r) ==
  /\ pc' = "done"
  /\ resp' = r
  /\ ipc' = "none"
  /\ inv' = NoInv
  /\ now' = 0
  /\ UNCHANGED cvars

\* a loop that walks the candidate list from its end
TryCandidateReversed(r, i, t) ==
  /\ pc' = "first"
  /\ mi' = i
  /\ first' = NoResult
  /\ Begin(candidatesOf(r)[Len(candidatesOf(r)) + 1 - i], FALSE, "first", t, timeoutOf(r))
  /\ UNCHANGED <<resp, text, chunks>>

\* one iteration of the non-stream for loop starts: Attempt 1 on candidate i
TryCandidate(r, i, t) ==
  /\ pc' = "first"
  /\ mi' = i
  /\ first' = NoResult
  /\ Begin(candidatesOf(r)[i], FALSE, "first", t, timeoutOf(r))
  /\ UNCHANGED <<resp, text, chunks>>

\* one iteration of the streaming for loop starts
TryStream(r, i, t) ==
  /\ pc' = "stream"
  /\ mi' = i
  /\ Begin(candidatesOf(r)[i], TRUE, "stream", t, timeoutOf(r))
  /\ UNCHANGED <<resp, text, chunks, first>>

\* a loop that returns the error of whichever candidate fails first
CandidateFailedSurfaced(f, t) ==
  /\ Return(upstreamError(f, candidatesOf(req)[mi]))
  /\ first' = f
  /\ UNCHANGED <<mi, text, chunks, contents>>

\* lines 222-230: the candidate failed with `first`
CandidateFailed(f, t) ==
  IF mi = Len(candidatesOf(req))
  THEN /\ Return(upstreamError(f, candidatesOf(req)[mi]))
       /\ first' = f
       /\ UNCHANGED <<mi, text, chunks, contents>>
  ELSE /\ TryCandidate(req, mi + 1, t)
       /\ UNCHANGED contents

\* a continuation loop whose cap is tested with <= where the code has <
ContinueOrReturnOneMore(txt, ch, t) ==
  /\ text' = txt
  /\ chunks' = ch
  /\ UNCHANGED mi
  /\ IF /\ req.long
        /\ ch <= maxChunksOf(req)
        /\ shouldContinue(txt)
        /\ timeLeft(t, timeoutOf(req)) > CONT_MARGIN_MS
     THEN /\ contents' = contents \o << [role |-> "model", parts |-> <<txt>>],
                                        [role |-> "user", parts |-> << <<continuePrompt(langOf(req))>> >>] >>
          /\ pc' = "cont"
          /\ Begin(candidatesOf(req)[mi], FALSE, "cont", t, timeoutOf(req))
          /\ UNCHANGED resp
     ELSE /\ Return(ok(finalize(txt, langOf(req), req.expect, req.mode),
                       candidatesOf(req)[mi], langOf(req)))
          /\ UNCHANGED contents

\* a continuation loop that asks only for some budget, not for the margin
ContinueOrReturnNoMargin(txt, ch, t) ==
  /\ text' = txt
  /\ chunks' = ch
  /\ UNCHANGED mi
  /\ IF /\ req.long
        /\ ch < maxChunksOf(req)
        /\ shouldContinue(txt)
        /\ timeLeft(t, timeoutOf(req)) > 0
     THEN /\ contents' = contents \o << [role |-> "model", parts |-> <<txt>>],
                                        [role |-> "user", parts |-> << <<continuePrompt(langOf(req))>> >>] >>
          /\ pc' = "cont"
          /\ Begin(candidatesOf(req)[mi], FALSE, "cont", t, timeoutOf(req))
          /\ UNCHANGED resp
     ELSE /\ Return(ok(finalize(txt, langOf(req), req.expect, req.mode),
                       candidatesOf(req)[mi], langOf(req)))
          /\ UNCHANGED contents

\* a loop that rebuilds the turns from the normalized sequence at each pass
ContinueOrReturnRebuilds(txt, ch, t) ==
  /\ text' = txt
  /\ chunks' = ch
  /\ UNCHANGED mi
  /\ IF /\ req.long
        /\ ch < maxChunksOf(req)
        /\ shouldContinue(txt)
        /\ timeLeft(t, timeoutOf(req)) > CONT_MARGIN_MS
     THEN /\ contents' = buildContents(req) \o
                           << [role |-> "model", parts |-> <<txt>>],
                              [role |-> "user", parts |-> << <<continuePrompt(langOf(req))>> >>] >>
          /\ pc' = "cont"
          /\ Begin(candidatesOf(req)[mi], FALSE, "cont", t, timeoutOf(req))
          /\ UNCHANGED resp
     ELSE /\ Return(ok(finalize(txt, langOf(req), req.expect, req.mode),
                       candidatesOf(req)[mi], langOf(req)))
          /\ UNCHANGED contents

\* the while loop of lines 237-245 at its condition, then line 247
ContinueOrReturn(txt, ch, t) ==
  /\ text' = txt
  /\ chunks' = ch
  /\ UNCHANGED mi
  /\ IF /\ req.long
        /\ ch < maxChunksOf(req)
        /\ shouldContinue(txt)
        /\ timeLeft(t, timeoutOf(req)) > CONT_MARGIN_MS
     THEN /\ contents' = contents \o << [role |-> "model", parts |-> <<txt>>],
                                        [role |-> "user", parts |-> << <<continuePrompt(langOf(req))>> >>] >>
          /\ pc' = "cont"
          /\ Begin(candidatesOf(req)[mi], FALSE, "cont", t, timeoutOf(req))
          /\ UNCHANGED resp
     ELSE /\ Return(ok(finalize(txt, langOf(req), req.expect, req.mode),
                       candidatesOf(req)[mi], langOf(req)))
          /\ UNCHANGED contents

\* a handler that takes a body it cannot parse for an empty one
ReceiveFromLenient(R) ==
  /\ pc = "idle"
  /\ \E r \in R :
       LET rl == rateCheck(bucket)
       IN  /\ req' = r
           /\ UNCHANGED <<rvars, lastEnd, atEval>>
           /\ IF r.method = "OPTIONS"
              THEN /\ Return([NoResp EXCEPT !.statusCode = 204])
                   /\ UNCHANGED <<bucket, mi, first, text, chunks, contents>>
              ELSE IF r.method # "POST"
              THEN /\ Return([NoResp EXCEPT !.statusCode = 405,
                                            !.error = "Method Not Allowed"])
                   /\ UNCHANGED <<bucket, mi, first, text, chunks, contents>>
              ELSE /\ bucket' = rl.bucket
                   /\ IF ~rl.ok
                      THEN /\ Return([NoResp EXCEPT !.statusCode = 429,
                                                    !.error = "Rate limit exceeded",
                                                    !.requestId = REQ_ID,
                                                    !.retry_after_seconds = rl.retryAfter])
                           /\ UNCHANGED <<mi, first, text, chunks, contents>>
                      ELSE IF ~r.hasKey
                      THEN /\ Return([NoResp EXCEPT !.statusCode = 500,
                                                    !.error = "Missing GEMINI_API_KEY",
                                                    !.requestId = REQ_ID])
                           /\ UNCHANGED <<mi, first, text, chunks, contents>>
                      ELSE /\ contents' = buildContents(r)
                           /\ IF r.stream THEN TryStream(r, 1, 0)
                                          ELSE TryCandidate(r, 1, 0)

\* the handler is entered with a request of R
ReceiveFrom(R) ==
  /\ pc = "idle"
  /\ \E r \in R :
       LET rl == rateCheck(bucket)
       IN  /\ req' = r
           /\ UNCHANGED <<rvars, lastEnd, atEval>>
           /\ IF r.method = "OPTIONS"
              THEN /\ Return([NoResp EXCEPT !.statusCode = 204])
                   /\ UNCHANGED <<bucket, mi, first, text, chunks, contents>>
              ELSE IF r.method # "POST"
              THEN /\ Return([NoResp EXCEPT !.statusCode = 405,
                                            !.error = "Method Not Allowed"])
                   /\ UNCHANGED <<bucket, mi, first, text, chunks, contents>>
              ELSE /\ bucket' = rl.bucket
                   /\ IF ~rl.ok
                      THEN /\ Return([NoResp EXCEPT !.statusCode = 429,
                                                    !.error = "Rate limit exceeded",
                                                    !.requestId = REQ_ID,
                                                    !.retry_after_seconds = rl.retryAfter])
                           /\ UNCHANGED <<mi, first, text, chunks, contents>>
                      ELSE IF ~r.hasKey
                      THEN /\ Return([NoResp EXCEPT !.statusCode = 500,
                                                    !.error = "Missing GEMINI_API_KEY",
                                                    !.requestId = REQ_ID])
                           /\ UNCHANGED <<mi, first, text, chunks, contents>>
                      ELSE IF ~r.bodyOk
                      THEN /\ Return([NoResp EXCEPT !.statusCode = 400,
                                                    !.error = "Invalid JSON body",
                                                    !.requestId = REQ_ID])
                           /\ UNCHANGED <<mi, first, text, chunks, contents>>
                      ELSE /\ contents' = buildContents(r)
                           /\ IF r.stream THEN TryStream(r, 1, 0)
                                          ELSE TryCandidate(r, 1, 0)

Receive == ReceiveFrom(Requests)

\* a fetch fails with a retryable outcome and tries are left: sleep(attempt)
FetchFailsRetry ==
  /\ ipc = "inflight"
  /\ \E e \in FetchEnds :
       /\ willRetry(e.o, inv.attempt)
       /\ now' = Tick(e.d)
       /\ lastEnd' = EndOf(e.o)
  /\ ipc' = "sleeping"
  /\ UNCHANGED <<pc, req, bucket, mi, inv, first, text, chunks, contents, resp,
                 cvars, atEval, rvars>>

\* a retry loop that issues its next fetch without awaiting the one in flight
SleepEndsUnawaited ==
  /\ ipc \in {"sleeping", "inflight"}
  /\ inv.attempt < MAX_TRIES
  /\ \E j \in Jitters :
       LET t == Tick(sleepMs(inv.attempt, j))
       IN  /\ now' = t
           /\ Issue(inv.model, inv.stream,
                    IF pc = "first" THEN "first" ELSE IF pc = "strict" THEN "strict"
                    ELSE IF pc = "cont" THEN "cont" ELSE "stream",
                    inv.attempt + 1)
  /\ inv' = [inv EXCEPT !.attempt = @ + 1]
  /\ ipc' = "inflight"
  /\ UNCHANGED <<pc, req, bucket, mi, first, text, chunks, contents, resp,
                 lastEnd, atEval, rvars>>

\* a retry loop whose attempt counter does not advance
SleepEndsSameAttempt ==
  /\ ipc = "sleeping"
  /\ \E j \in Jitters :
       LET t == Tick(sleepMs(inv.attempt, j))
       IN  /\ now' = t
           /\ Issue(inv.model, inv.stream,
                    IF pc = "first" THEN "first" ELSE IF pc = "strict" THEN "strict"
                    ELSE IF pc = "cont" THEN "cont" ELSE "stream",
                    inv.attempt)
  /\ ipc' = "inflight"
  /\ UNCHANGED <<pc, req, bucket, mi, inv, first, text, chunks, contents, resp,
                 lastEnd, atEval, rvars>>

\* the backoff ends and the loop issues its next fetch, with the same timeout
SleepEnds ==
  /\ ipc = "sleeping"
  /\ \E j \in Jitters :
       LET t == Tick(sleepMs(inv.attempt, j))
       IN  /\ now' = t
           /\ Issue(inv.model, inv.stream,
                    IF pc = "first" THEN "first" ELSE IF pc = "strict" THEN "strict"
                    ELSE IF pc = "cont" THEN "cont" ELSE "stream",
                    inv.attempt + 1)
  /\ inv' = [inv EXCEPT !.attempt = @ + 1]
  /\ ipc' = "inflight"
  /\ UNCHANGED <<pc, req, bucket, mi, first, text, chunks, contents, resp,
                 lastEnd, atEval, rvars>>

\* Attempt 1 on the current candidate returns (line 213)
FirstReturns ==
  /\ pc = "first" /\ ipc = "inflight"
  /\ \E e \in FetchEnds :
       /\ ~willRetry(e.o, inv.attempt)
       /\ LET f == jsonResult(e.o)
              t == Tick(e.d)
          IN  /\ lastEnd' = EndOf(e.o)
              /\ atEval' = IF f.ok THEN BudgetAt(t) ELSE atEval
              /\ IF ~f.ok
                 THEN IF wantsStrict(req) /\ blockedRx(f.error.error)
                      THEN /\ pc' = "strict"
                           /\ first' = f
                           /\ Begin(candidatesOf(req)[mi], FALSE, "strict", t, timeoutOf(req))
                           /\ UNCHANGED <<mi, text, chunks, contents, resp>>
                      ELSE CandidateFailed(f, t)
                 ELSE /\ first' = f
                      /\ ContinueOrReturn(f.text, 1, t)
  /\ UNCHANGED <<req, bucket, rvars>>

\* a strict recovery whose text enters the continuation loop
StrictReturnsContinues ==
  /\ pc = "strict" /\ ipc = "inflight"
  /\ \E e \in FetchEnds :
       /\ ~willRetry(e.o, inv.attempt)
       /\ LET second == jsonResult(e.o)
              t == Tick(e.d)
          IN  /\ lastEnd' = EndOf(e.o)
              /\ IF second.ok
                 THEN /\ UNCHANGED first
                      /\ ContinueOrReturn(second.text, 1, t)
                 ELSE CandidateFailed(first, t)
  /\ UNCHANGED <<req, bucket, atEval, rvars>>

\* the strict recovery attempt returns (line 219)
StrictReturns ==
  /\ pc = "strict" /\ ipc = "inflight"
  /\ \E e \in FetchEnds :
       /\ ~willRetry(e.o, inv.attempt)
       /\ LET second == jsonResult(e.o)
              t == Tick(e.d)
          IN  /\ lastEnd' = EndOf(e.o)
              /\ IF second.ok
                 THEN /\ Return(ok(finalize(second.text, langOf(req), req.expect, req.mode),
                                   candidatesOf(req)[mi], langOf(req)))
                      /\ UNCHANGED <<mi, first, text, chunks, contents>>
                 ELSE CandidateFailed(first, t)
  /\ UNCHANGED <<req, bucket, atEval, rvars>>

\* a continuation loop that treats a failed continuation as a failed candidate
ContReturnsEscalates ==
  /\ pc = "cont" /\ ipc = "inflight"
  /\ \E e \in FetchEnds :
       /\ ~willRetry(e.o, inv.attempt)
       /\ LET next == jsonResult(e.o)
              t == Tick(e.d)
          IN  /\ lastEnd' = EndOf(e.o)
              /\ atEval' = IF next.ok THEN BudgetAt(t) ELSE atEval
              /\ IF ~next.ok
                 THEN CandidateFailed(next, t)
                 ELSE /\ UNCHANGED first
                      /\ ContinueOrReturn(appendChunk(text, next.text), chunks + 1, t)
  /\ UNCHANGED <<req, bucket, rvars>>

\* a continuation call returns (line 240)
ContReturns ==
  /\ pc = "cont" /\ ipc = "inflight"
  /\ \E e \in FetchEnds :
       /\ ~willRetry(e.o, inv.attempt)
       /\ LET next == jsonResult(e.o)
              t == Tick(e.d)
          IN  /\ lastEnd' = EndOf(e.o)
              /\ atEval' = IF next.ok THEN BudgetAt(t) ELSE atEval
              /\ IF ~next.ok
                 THEN /\ Return(ok(finalize(text, langOf(req), req.expect, req.mode),
                                   candidatesOf(req)[mi], langOf(req)))
                      /\ UNCHANGED <<mi, first, text, chunks, contents>>
                 ELSE /\ UNCHANGED first
                      /\ ContinueOrReturn(appendChunk(text, next.text), chunks + 1, t)
  /\ UNCHANGED <<req, bucket, rvars>>

(* --------------------------- Streaming relay -------------------------- *)
\* how many reads of the upstream stream deliver data
MaxReads == 2
\* the time a read takes when the data does not come at once
ReadMs == 3000
ReadDurations == {0, ReadMs, 2 * ReadMs}
StreamValues == { <<"a", NL>>, <<"a">>, <<NL, " ", NL, "b">> }

Event(type, m, data) == [type |-> type, model |-> m, data |-> data]

\* s.split("\n")
RECURSIVE splitNL(_)
splitNL(s) ==
  LET i == IndexOf(s, NL)
  IN  IF i = 0 THEN <<s>>
      ELSE <<SubSeq(s, 1, i - 1)>> \o splitNL(SliceFrom(s, i))

\* the chunk events of lines 184-188
RECURSIVE chunkEvents(_, _)
chunkEvents(lines, m) ==
  IF lines = <<>> THEN <<>>
  ELSE LET trimmed == Trim(Head(lines))
       IN  (IF trimmed = <<>> THEN <<>> ELSE <<Event("chunk", m, trimmed)>>)
           \o chunkEvents(Tail(lines), m)

\* a stream loop that writes the meta event before it knows the call succeeded
StreamReturnsMetaFirst ==
  /\ pc = "stream" /\ ipc = "inflight"
  /\ \E e \in FetchEnds :
       /\ ~willRetry(e.o, inv.attempt)
       /\ LET once == streamResult(e.o)
              t == Tick(e.d)
          IN  /\ lastEnd' = EndOf(e.o)
              /\ IF once.ok
                 THEN /\ pc' = "relay"
                      /\ now' = t
                      /\ ipc' = "none"
                      /\ events' = <<Event("meta", candidatesOf(req)[mi], <<>>)>>
                      /\ buffer' = <<>>
                      /\ sinceHb' = 0
                      /\ reads' = 0
                      /\ received' = <<>>
                      /\ firstWait' = 0
                      /\ inv' = NoInv
                      /\ UNCHANGED <<mi, first, text, chunks, contents, resp, cvars>>
                 ELSE /\ events' = <<Event("meta", candidatesOf(req)[mi], <<>>)>>
                      /\ UNCHANGED <<buffer, sinceHb, reads, received, firstWait>>
                      /\ IF mi = Len(candidatesOf(req))
                         THEN /\ Return(once.errorResp)
                              /\ UNCHANGED <<mi, first, text, chunks, contents>>
                         ELSE /\ TryStream(req, mi + 1, t)
                              /\ UNCHANGED contents
  /\ UNCHANGED <<req, bucket, atEval>>

\* a stream loop that falls through to the non-stream loop when it is exhausted
StreamReturnsFallsThrough ==
  /\ pc = "stream" /\ ipc = "inflight"
  /\ \E e \in FetchEnds :
       /\ ~willRetry(e.o, inv.attempt)
       /\ LET once == streamResult(e.o)
              t == Tick(e.d)
          IN  /\ lastEnd' = EndOf(e.o)
              /\ IF once.ok
                 THEN /\ pc' = "relay"
                      /\ now' = t
                      /\ ipc' = "none"
                      /\ events' = <<Event("meta", candidatesOf(req)[mi], <<>>)>>
                      /\ buffer' = <<>>
                      /\ sinceHb' = 0
                      /\ reads' = 0
                      /\ received' = <<>>
                      /\ firstWait' = 0
                      /\ inv' = NoInv
                      /\ UNCHANGED <<mi, first, text, chunks, contents, resp, cvars>>
                 ELSE /\ UNCHANGED rvars
                      /\ IF mi = Len(candidatesOf(req))
                         THEN /\ TryCandidate(req, 1, t)
                              /\ UNCHANGED contents
                         ELSE /\ TryStream(req, mi + 1, t)
                              /\ UNCHANGED contents
  /\ UNCHANGED <<req, bucket, atEval>>

\* a streaming call returns (line 165)
StreamReturns ==
  /\ pc = "stream" /\ ipc = "inflight"
  /\ \E e \in FetchEnds :
       /\ ~willRetry(e.o, inv.attempt)
       /\ LET once == streamResult(e.o)
              t == Tick(e.d)
          IN  /\ lastEnd' = EndOf(e.o)
              /\ IF once.ok
                 THEN /\ pc' = "relay"
                      /\ now' = t
                      /\ ipc' = "none"
                      /\ events' = <<Event("meta", candidatesOf(req)[mi], <<>>)>>
                      /\ buffer' = <<>>
                      /\ sinceHb' = 0
                      /\ reads' = 0
                      /\ received' = <<>>
                      /\ firstWait' = 0
                      /\ inv' = NoInv
                      /\ UNCHANGED <<mi, first, text, chunks, contents, resp, cvars>>
                 ELSE /\ UNCHANGED rvars
                      /\ IF mi = Len(candidatesOf(req))
                         THEN /\ Return(once.errorResp)
                              /\ UNCHANGED <<mi, first, text, chunks, contents>>
                         ELSE /\ TryStream(req, mi + 1, t)
                              /\ UNCHANGED contents
  /\ UNCHANGED <<req, bucket, atEval>>

\* a relay that forgets the unfinished line between two reads
RelayReadDropsRemainder ==
  /\ pc = "relay"
  /\ reads < MaxReads
  /\ \E value \in StreamValues, d \in ReadDurations :
       LET lines == splitNL(value)
           m == candidatesOf(req)[mi]
           beat == sinceHb + d > HEARTBEAT_MS
       IN  /\ now' = Tick(d)
           /\ buffer' = lines[Len(lines)]
           /\ events' = events \o chunkEvents(SubSeq(lines, 1, Len(lines) - 1), m)
                        \o (IF beat THEN <<Event("ping", "", <<>>)>> ELSE <<>>)
           /\ sinceHb' = IF beat THEN 0 ELSE Min2(sinceHb + d, HEARTBEAT_MS + 1)
           /\ received' = received \o value
           /\ firstWait' = IF reads = 0 THEN d ELSE firstWait
  /\ reads' = reads + 1
  /\ UNCHANGED <<req, bucket, hvars, lastEnd, atEval>>

\* a relay that passes the events on to the caller as they are yielded
RelayReadPassesOn ==
  /\ pc = "relay"
  /\ reads < MaxReads
  /\ \E value \in StreamValues, d \in ReadDurations :
       LET lines == splitNL(buffer \o value)
           m == candidatesOf(req)[mi]
           beat == sinceHb + d > HEARTBEAT_MS
       IN  /\ now' = Tick(d)
           /\ buffer' = lines[Len(lines)]
           /\ events' = events \o chunkEvents(SubSeq(lines, 1, Len(lines) - 1), m)
                        \o (IF beat THEN <<Event("ping", "", <<>>)>> ELSE <<>>)
           /\ sinceHb' = IF beat THEN 0 ELSE Min2(sinceHb + d, HEARTBEAT_MS + 1)
           /\ received' = received \o value
           /\ firstWait' = IF reads = 0 THEN d ELSE firstWait
  /\ reads' = reads + 1
  /\ resp' = [NoResp EXCEPT !.statusCode = 200, !.body = events']
  /\ UNCHANGED <<req, bucket, pc, ipc, mi, inv, first, text, chunks, contents,
                 cvars, lastEnd, atEval>>

\* reader.read() delivers a value: lines 181-192
RelayRead ==
  /\ pc = "relay"
  /\ reads < MaxReads
  /\ \E value \in StreamValues, d \in ReadDurations :
       LET lines == splitNL(buffer \o value)
           m == candidatesOf(req)[mi]
           beat == sinceHb + d > HEARTBEAT_MS
       IN  /\ now' = Tick(d)
           /\ buffer' = lines[Len(lines)]
           /\ events' = events \o chunkEvents(SubSeq(lines, 1, Len(lines) - 1), m)
                        \o (IF beat THEN <<Event("ping", "", <<>>)>> ELSE <<>>)
           /\ sinceHb' = IF beat THEN 0 ELSE Min2(sinceHb + d, HEARTBEAT_MS + 1)
           /\ received' = received \o value
           /\ firstWait' = IF reads = 0 THEN d ELSE firstWait
  /\ reads' = reads + 1
  /\ UNCHANGED <<req, bucket, hvars, lastEnd, atEval>>

\* a relay that emits the unfinished line when the upstream closes
RelayDoneFlushes ==
  /\ pc = "relay"
  /\ \E d \in ReadDurations :
       /\ LET m == candidatesOf(req)[mi]
              all == events \o chunkEvents(<<buffer>>, m) \o <<Event("end", m, <<>>)>>
          IN  /\ events' = all
              /\ Return([NoResp EXCEPT !.statusCode = 200, !.body = all])
  /\ UNCHANGED <<req, bucket, mi, first, text, chunks, contents, buffer, sinceHb,
                 reads, received, firstWait, lastEnd, atEval>>

\* reader.read() reports done: the end event, and streamBody returns the body
RelayDone ==
  /\ pc = "relay"
  /\ \E d \in ReadDurations :
       /\ LET all == Append(events, Event("end", candidatesOf(req)[mi], <<>>))
          IN  /\ events' = all
              /\ Return([NoResp EXCEPT !.statusCode = 200, !.body = all])
  /\ UNCHANGED <<req, bucket, mi, first, text, chunks, contents, buffer, sinceHb,
                 reads, received, firstWait, lastEnd, atEval>>

(* --------------------------- Specification ---------------------------- *)
Buckets ==
  { NoBucket,
    [count |-> RATE_MAX_REQ, resetAt |-> RATE_WINDOW_MS],
    [count |-> RATE_MAX_REQ, resetAt |-> -1] }

Init ==
  /\ pc = "idle"
  /\ ipc = "none"
  /\ req = DefaultRequest
  /\ bucket \in Buckets
  /\ now = 0
  /\ mi = 0
  /\ inv = NoInv
  /\ first = NoResult
  /\ text = <<>>
  /\ chunks = 0
  /\ contents = <<>>
  /\ resp = NoResp
  /\ tries = 0
  /\ tried = <<>>
  /\ lastCall = NoCall
  /\ lastEnd = NoEnd
  /\ atEval = "none"
  /\ events = <<>>
  /\ buffer = <<>>
  /\ sinceHb = 0
  /\ reads = 0
  /\ received = <<>>
  /\ firstWait = 0

Next ==
  \/ Receive
  \/ FetchFailsRetry
  \/ SleepEnds
  \/ FirstReturns
  \/ StrictReturns
  \/ ContReturns
  \/ StreamReturns
  \/ RelayRead
  \/ RelayDone

Spec == Init /\ [][Next]_vars

\* the fetch in flight settles: it is answered, fails, or is aborted by the
\* timer of lines 470 / 502
FetchSettles ==
  FetchFailsRetry \/ FirstReturns \/ StrictReturns \/ ContReturns \/ StreamReturns
\* the same handler when every fetch settles and the timer of every backoff
\* fires (line 547)
LiveSpec ==
  /\ Init /\ [][Next]_vars
  /\ WF_vars(FetchSettles)
  /\ WF_vars(SleepEnds)

\* the handler from its entry to its first await, on every kind of request
ReceiveAny == ReceiveFrom(AnyRequests)
EntrySpec == Init /\ [][ReceiveAny]_vars

(* ---------------- The prompt/messages variant (part_000) --------------- *)
\* buildParts(prompt, images, audio) without media
buildParts(prompt) == IF Trim(prompt) # <<>> THEN <<prompt>> ELSE <<>>

\* the map of normalizeMessagesWithMedia, `injected` threaded through
RECURSIVE normalizeWithMediaFrom(_, _)
normalizeWithMediaFrom(messages, injected) ==
  IF messages = <<>> THEN <<>>
  ELSE LET m == messages[1]
           c == IF Trim(m.content) # <<>> THEN m.content ELSE <<>>
           inject == ~injected /\ m.role = "user"
           parts == IF inject THEN <<wrapPrompt(c)>>
                    ELSE IF c # <<>> THEN <<m.content>> ELSE <<>>
           turn == [role |-> safeRole(m.role), parts |-> parts]
           rest == normalizeWithMediaFrom(Tail(messages), injected \/ inject)
       IN  IF turn.parts # <<>> THEN <<turn>> \o rest ELSE rest

normalizeMessagesWithMedia(messages) == normalizeWithMediaFrom(messages, FALSE)

\* lines 77-80: the messages if they are an array, else the prompt
promptContents(r) ==
  IF r.messagesIsArray THEN normalizeMessagesWithMedia(r.messages)
  ELSE << [role |-> "user", parts |-> buildParts(wrapPrompt(r.prompt))] >>

PromptInputs == { <<>>, <<"a">> }
PromptRequests ==
  AnyRequests \cup {[r EXCEPT !.prompt = pr] : r \in AnyRequests, pr \in PromptInputs}

\* the handler of part_000 from its entry to its first transport call
PromptReceive ==
  /\ pc = "idle"
  /\ \E r \in PromptRequests :
       /\ req' = r
       /\ UNCHANGED <<bucket, rvars, lastEnd, atEval>>
       /\ IF r.method = "OPTIONS"
          THEN /\ Return([NoResp EXCEPT !.statusCode = 204])
               /\ UNCHANGED <<mi, first, text, chunks, contents>>
          ELSE IF r.method # "POST"
          THEN /\ Return([NoResp EXCEPT !.statusCode = 405,
                                        !.error = "Method Not Allowed"])
               /\ UNCHANGED <<mi, first, text, chunks, contents>>
          ELSE IF ~r.hasKey
          THEN /\ Return([NoResp EXCEPT !.statusCode = 500,
                                        !.error = "GEMINI_API_KEY is missing"])
               /\ UNCHANGED <<mi, first, text, chunks, contents>>
          ELSE IF ~r.bodyOk
          THEN /\ Return([NoResp EXCEPT !.statusCode = 400, !.error = "Invalid JSON"])
               /\ UNCHANGED <<mi, first, text, chunks, contents>>
          ELSE /\ contents' = promptContents(r)
               /\ IF r.stream THEN TryStream(r, 1, 0) ELSE TryCandidate(r, 1, 0)

PromptSpec == Init /\ [][PromptReceive]_vars

(* ------------------ Finalization of fenced JSON texts ------------------ *)
\* JSON.stringify of a string without escapes
Quoted(t) == <<QUOTE>> \o t \o <<QUOTE>>
JsonKeys == { Quoted(<<"a">>), Quoted(<<"b">>) }
\* values: strings (plain, with braces, with grave accents), literals, and
\* nested containers
JsonValues ==
  { Quoted(<<"x">>), Quoted(<<"{">>), Quoted(<<"}">>), Quoted(<<"}", "{">>),
    Quoted(<<BACKTICK>>), Quoted(fence_), Quoted(<<"x">> \o fenceJson_),
    true_, null_, <<"{", "}">>, <<"[", "]">>,
    <<"{">> \o Quoted(<<"a">>) \o <<":">> \o Quoted(<<"}">>) \o <<"}">>,
    <<"[">> \o null_ \o <<",">> \o Quoted(<<"x">>) \o <<"]">> }
\* JSON.stringify(o) for the objects with up to two members
JsonObjects ==
  { <<"{", "}">> }
  \cup { <<"{">> \o k \o <<":">> \o v \o <<"}">> : k \in JsonKeys, v \in JsonValues }
  \cup { <<"{">> \o kv[1] \o <<":">> \o kv[2] \o <<",">> \o kv[3] \o <<":">> \o kv[4] \o <<"}">> :
           kv \in { x \in JsonKeys \X JsonValues \X JsonKeys \X JsonValues : x[1] # x[3] } }
\* a text put in a fenced block tagged json
wrapInFencedBlock(t) == fenceJson_ \o <<NL>> \o t \o <<NL>> \o fence_

\* a model text that is a fenced JSON object has been accumulated for a
\* request that expects JSON
JsonInit ==
  /\ pc = "idle" /\ ipc = "none"
  /\ req = [DefaultRequest EXCEPT !.expect = "json"]
  /\ bucket \in Buckets
  /\ now = 0 /\ mi = 0 /\ inv = NoInv /\ first = NoResult
  /\ text \in {wrapInFencedBlock(o) : o \in JsonObjects}
  /\ chunks = 0 /\ contents = <<>> /\ resp = NoResp
  /\ tries = 0 /\ tried = <<>> /\ lastCall = NoCall /\ lastEnd = NoEnd
  /\ atEval = "none"
  /\ events = <<>> /\ buffer = <<>> /\ sinceHb = 0 /\ reads = 0
  /\ received = <<>> /\ firstWait = 0

\* line 247 on that text
FinalizeReturns ==
  /\ pc = "idle"
  /\ Return(ok(finalize(text, langOf(req), req.expect, req.mode),
               MODEL_POOL[1], langOf(req)))
  /\ UNCHANGED <<req, bucket, mi, first, text, chunks, contents, lastEnd, atEval, rvars>>

JsonSpec == JsonInit /\ [][FinalizeReturns]_vars

(* ------------------------------- Claims ------------------------------- *)
\* the candidate list of the request in hand
Cands == candidatesOf(req)
\* a step in which the fetch in flight comes to its end
FetchEnded == ipc = "inflight"
\* the handler walks the non-stream loop
Unary == pc \in {"first", "strict", "cont"} \/ (pc = "done" /\ mi >= 1 /\ ~req.stream)

\* C1: in the non-streaming path the models fetched are, in order, the first
\* mi candidates of the list; the handler moves on by one candidate and only
\* when the fetch that just ended on the current one was not a success; once
\* a first attempt succeeded no other model is fetched; and a 200 response
\* names the current candidate, the one the last fetch went to.
C1_FallbackInListOrder ==
  [][ Unary' =>
        /\ tried' = SubSeq(candidatesOf(req'), 1, mi')
        /\ (mi >= 1 /\ mi' # mi) =>
              /\ mi' = mi + 1
              /\ FetchEnded
              /\ lastEnd'.class # "ok"
              /\ lastEnd'.model = Cands[mi]
        /\ first.ok => (tried' = tried /\ mi' = mi)
        /\ resp'.statusCode = 200 =>
              /\ resp'.model = Cands[mi']
              /\ lastCall'.model = resp'.model
              /\ tried'[Len(tried')] = resp'.model ]_vars

\* C1 happens: two candidates failed and the third answered the request
C1_Witness ==
  /\ pc = "done" /\ ~req.stream /\ resp.statusCode = 200
  /\ Len(tried) >= 3 /\ resp.model = Cands[3]
  /\ lastEnd.class = "ok"

\* C2: a retry loop never issues more than MAX_TRIES fetches; while it sleeps
\* and retries it stays on its model and call shape; and when its last fetch
\* ended with a retryable failure and the loop gave up, that fetch was the
\* third, so three fetches went to the candidate before any went to the next.
C2_AtMostThreeTries ==
  /\ [](tries <= MAX_TRIES /\ lastCall.attempt = tries)
  /\ [][ /\ ipc = "sleeping" =>
              /\ lastCall'.model = lastCall.model
              /\ lastCall'.shape = lastCall.shape
              /\ lastCall'.attempt = lastCall.attempt + 1
              /\ mi' = mi
         /\ (FetchEnded /\ lastEnd'.class = "retryable" /\ ipc' # "sleeping") =>
              /\ tries = MAX_TRIES
              /\ lastEnd'.attempt = MAX_TRIES ]_vars

\* C2 happens: three retryable failures on the first pool model, then the
\* first fetch to the second
C2_Witness ==
  /\ req.model = "auto" /\ pc = "first" /\ ipc = "inflight" /\ mi = 2
  /\ lastEnd = [class |-> "retryable", model |-> MODEL_POOL[1], shape |-> "first",
                 attempt |-> MAX_TRIES]
  /\ lastCall = [model |-> MODEL_POOL[2], stream |-> FALSE, shape |-> "first",
                  attempt |-> 1]

\* C3: when a fetch ends with a terminal status or an empty answer, the retry
\* loop neither sleeps nor fetches again: a fetch issued in that step opens a
\* new loop, and a terminal first fetch is the loop's only one.  In the
\* candidate loops, unless the strict recovery applies, the handler then
\* fetches the next candidate or, on the last one, returns an error.
C3_TerminalNotRetried ==
  [][ (FetchEnded /\ lastEnd'.class \in {"terminal", "empty"}) =>
        /\ ipc' # "sleeping"
        /\ lastCall' = lastCall \/ lastCall'.attempt = 1
        /\ lastCall.attempt = 1 => tries = 1
        /\ ( /\ pc \in {"first", "strict", "stream"}
             /\ ~(pc = "first" /\ wantsStrict(req) /\ lastEnd'.class = "empty") ) =>
              IF mi < Len(Cands)
              THEN /\ mi' = mi + 1
                   /\ lastCall'.model = Cands[mi + 1]
                   /\ lastCall'.attempt = 1
                   /\ ipc' = "inflight"
              ELSE /\ pc' = "done"
                   /\ resp'.statusCode >= 400
                   /\ lastCall' = lastCall ]_vars

\* C3 happens: one fetch to the first pool model met a terminal status and
\* the next fetch went to the second
C3_Witness ==
  /\ req.model = "auto" /\ pc = "first" /\ mi = 2
  /\ lastEnd = [class |-> "terminal", model |-> MODEL_POOL[1], shape |-> "first",
                 attempt |-> 1]
  /\ lastCall.model = MODEL_POOL[2] /\ lastCall.attempt = 1 /\ tries = 1

\* C4: no fetch is issued once the remaining budget (timeout_ms minus the
\* time elapsed since the request started) is at or below zero: whenever a
\* fetch is in flight, budget was left at the time it was issued.
C4_NoFetchWithoutBudget ==
  ipc = "inflight" => timeoutOf(req) - now > 0

\* C5: the non-stream loop returns its upstream error only when the current
\* candidate is the last of the list and every candidate of the list was
\* fetched, the last fetch having failed; the error carries the requestId,
\* the last candidate as modelTried and the failure recorded for it; and no
\* other failure response follows a fetch in the non-streaming path.
C5_ErrorOnlyAfterExhaustion ==
  /\ resp.error = "Upstream error" =>
        /\ pc = "done" /\ ~req.stream
        /\ mi = Len(Cands)
        /\ tried = Cands
        /\ lastEnd.class # "ok" /\ lastEnd.model = Cands[Len(Cands)]
        /\ resp.requestId = REQ_ID
        /\ resp.modelTried = Cands[Len(Cands)]
        /\ ~first.ok /\ first.error # NoUpstream
        /\ resp.upstream = first.error
        /\ resp.statusCode = first.statusCode
  /\ (pc = "done" /\ mi >= 1 /\ ~req.stream /\ resp.statusCode # 200) =>
        resp.error = "Upstream error"

\* C5 happens: the caller's model and both pool models failed and the error
\* names the last pool model
C5_Witness ==
  /\ pc = "done" /\ req.model = "my-model" /\ resp.error = "Upstream error"
  /\ resp.modelTried = MODEL_POOL[PoolLen]
  /\ Len(tried) = 1 + PoolLen

\* C6: every failure response the handler returns carries the requestId in
\* its body.
C6_FailuresCarryRequestId ==
  (pc = "done" /\ resp.statusCode >= 400) => resp.requestId = REQ_ID

\* C7: the status of the non-stream exhaustion error follows from the failure
\* recorded for the last candidate: upstream 429 gives 429, upstream 5xx
\* gives 502, another upstream status is passed through, a network failure
\* or timeout gives 500 and an empty or blocked answer gives 502.
C7_ExhaustionStatus ==
  resp.error = "Upstream error" =>
    LET e == resp.upstream
    IN  /\ e.error \in {"Upstream rejected", "Network/timeout", "Empty/blocked response"}
        /\ e.error = "Upstream rejected" =>
              /\ e.status \in FailStatuses
              /\ e.status = 429 => resp.statusCode = 429
              /\ (e.status >= 500 /\ e.status <= 599) => resp.statusCode = 502
              /\ (e.status # 429 /\ e.status < 500) => resp.statusCode = e.status
        /\ e.error = "Network/timeout" => resp.statusCode = 500
        /\ e.error = "Empty/blocked response" => resp.statusCode = 502
        /\ (lastEnd.shape = "first" /\ lastEnd.class = "empty") =>
              e.error = "Empty/blocked response"
        /\ (lastEnd.shape = "first" /\ lastEnd.class = "terminal") =>
              (e.error = "Upstream rejected" /\ resp.statusCode = e.status)

\* C7 happens: the last candidate answered 500 three times and the caller
\* gets 502
C7_Witness ==
  /\ pc = "done" /\ resp.error = "Upstream error"
  /\ resp.upstream = [error |-> "Upstream rejected", status |-> 500]
  /\ resp.statusCode = 502
  /\ lastEnd.class = "retryable" /\ lastEnd.attempt = MAX_TRIES

\* the continuation invocations made so far: each appends two turns
Continuations == (Len(contents) - Len(buildContents(req))) \div 2
\* the text the caller gets for the accumulated text
Finalized == finalize(text, langOf(req), req.expect, req.mode)

\* C8: the continuation invocations number at most clamp(max_chunks, 1, 12,
\* default 4) - 1, so at most 2 with max_chunks = 3 and never more than 11;
\* each follows a successful first attempt and goes to the candidate that
\* gave it; there is none with long = false or max_chunks <= 1.
C8_ContinuationsCapped ==
  Unary =>
    /\ Continuations >= 0
    /\ Continuations <= clamp(req.max_chunks, 1, 12, 4) - 1
    /\ Continuations <= 11
    /\ chunks <= Continuations + 1
    /\ req.max_chunks = <<3>> => Continuations <= 2
    /\ (~req.long \/ (Len(req.max_chunks) = 1 /\ req.max_chunks[1] <= 1)) =>
          (Continuations = 0 /\ pc # "cont")
    /\ (Continuations > 0 \/ pc = "cont") =>
          /\ first.ok
          /\ Continuations > 0
          /\ lastCall.shape = "cont"
          /\ lastCall.model = Cands[mi]
          /\ tried = SubSeq(Cands, 1, mi)

\* C8 happens: a caller asked for 13 chunks and got 12, from 11 continuations
C8_Witness ==
  /\ pc = "done" /\ req.long /\ req.max_chunks = ManyChunks
  /\ Continuations = 11 /\ chunks = 12
  /\ resp.statusCode = 200

\* C9: when the continuation condition is evaluated with a remaining budget
\* of at most 2500 ms, no fetch follows: the handler is done, no retry loop
\* runs, the last fetch is the successful one that led to the evaluation, and
\* the response is a 200 with the text accumulated so far, as finalized.
C9_NoContinuationWithinMargin ==
  atEval = "low" =>
    /\ pc = "done" /\ ipc = "none"
    /\ lastEnd.class = "ok"
    /\ lastEnd.attempt = lastCall.attempt
    /\ lastEnd.shape = lastCall.shape
    /\ chunks = Continuations + 1
    /\ resp.statusCode = 200
    /\ resp.text = Finalized

\* C9 happens: the text looks truncated and chunks are left, yet the handler
\* returned for want of budget, after an earlier continuation
C9_Witness ==
  /\ atEval = "low" /\ pc = "done"
  /\ req.long /\ shouldContinue(text) /\ chunks < maxChunksOf(req)
  /\ chunks = 2

\* C10 as stated: when a continuation invocation fails, the loop stops, no
\* fetch is issued, no other candidate is tried, and the caller receives a
\* 200 whose text is exactly the text accumulated before the failure.
C10_FailedContinuationExactText ==
  [][ (pc = "cont" /\ FetchEnded /\ lastEnd'.class # "ok" /\ ipc' # "sleeping") =>
        /\ pc' = "done" /\ ipc' = "none"
        /\ tries' = tries /\ lastCall' = lastCall /\ tried' = tried /\ mi' = mi
        /\ text' = text
        /\ resp'.statusCode = 200
        /\ resp'.text = text ]_vars

\* C10, amended: when a continuation invocation fails, the loop stops, no
\* fetch is issued, no other candidate is tried, and the caller receives a
\* 200 from the same candidate whose text is the finalized form of exactly
\* the text accumulated before the failure (nothing of the failed
\* continuation is in it).
C10_FailedContinuationKeepsText ==
  [][ (pc = "cont" /\ FetchEnded /\ lastEnd'.class # "ok" /\ ipc' # "sleeping") =>
        /\ pc' = "done" /\ ipc' = "none"
        /\ tries' = tries /\ lastCall' = lastCall /\ tried' = tried /\ mi' = mi
        /\ text' = text
        /\ resp'.statusCode = 200
        /\ resp'.model = Cands[mi]
        /\ resp'.text = Finalized ]_vars

\* C10 happens: a continuation failed three times and the caller got the
\* accumulated text behind the language note
C10_Witness ==
  /\ pc = "done" /\ resp.statusCode = 200
  /\ lastEnd.shape = "cont" /\ lastEnd.class = "retryable"
  /\ lastEnd.attempt = MAX_TRIES
  /\ text # <<>> /\ resp.text = Finalized /\ resp.text # text

\* a streaming call succeeded and its body is relayed, or was
Relayed == pc = "relay" \/ (pc = "done" /\ req.stream /\ resp.statusCode = 200)
\* the newline-terminated lines of s
TerminatedLines(s) == LET l == splitNL(s) IN SubSeq(l, 1, Len(l) - 1)
\* one chunk event for each line of the data received that is not blank
ExpectedChunks(m) ==
  LET ls == TerminatedLines(received)
      tr == [i \in 1..Len(ls) |-> Trim(ls[i])]
      ne == SelectSeq(tr, LAMBDA l : l # <<>>)
  IN  [i \in 1..Len(ne) |-> [type |-> "chunk", model |-> m, data |-> ne[i]]]
NotPing(e) == e.type # "ping"
EventTypes == {events[i].type : i \in 1..Len(events)}

\* C11: after a successful streaming call the events, pings left aside, are
\* one meta event naming the candidate whose call succeeded (the candidates
\* before it having failed), then one chunk event for each non-blank
\* newline-terminated line of the upstream data, in arrival order, then, once
\* the upstream is done, one end event; the response body is that sequence,
\* and an event once emitted stays where it is.
C11_RelayEventOrder ==
  /\ [](Relayed =>
          LET m == Cands[mi]
          IN  /\ SelectSeq(events, NotPing) =
                   << [type |-> "meta", model |-> m, data |-> <<>>] >>
                   \o ExpectedChunks(m)
                   \o (IF pc = "done"
                       THEN << [type |-> "end", model |-> m, data |-> <<>>] >>
                       ELSE <<>>)
              /\ events[1].type = "meta"
              /\ tried = SubSeq(Cands, 1, mi)
              /\ lastEnd.class = "ok" /\ lastEnd.model = m
              /\ pc = "done" =>
                    (resp.body = events /\ events[Len(events)].type = "end"))
  /\ [][ Relayed =>
          /\ Len(events') >= Len(events)
          /\ SubSeq(events', 1, Len(events)) = events
          /\ "end" \in EventTypes => events' = events ]_vars

\* C11 happens: the second candidate's stream was relayed with two chunks and
\* a ping between meta and end
C11_Witness ==
  /\ pc = "done" /\ req.stream /\ resp.statusCode = 200 /\ mi = 2
  /\ Len(ExpectedChunks(Cands[mi])) = 2
  /\ "ping" \in EventTypes
  /\ resp.body = events

\* C12: when the first upstream data of a relayed stream arrives after more
\* than 5000 ms of silence, a ping event comes before the first chunk event.
C12_PingBeforeFirstChunk ==
  (Relayed /\ firstWait > HEARTBEAT_MS /\ "chunk" \in EventTypes) =>
    \E i \in 1..Len(events) :
      /\ events[i].type = "ping"
      /\ \A j \in 1..i : events[j].type # "chunk"

\* C13: no event is produced for a streaming call that did not succeed:
\* while the stream loop tries candidates there is no event, and when the
\* call failed for every candidate (each after its retries) the handler
\* returns one error response, not a 200, whose body holds no event.
C13_NoFramingOnStreamFailure ==
  /\ pc = "stream" => events = <<>>
  /\ events # <<>> => (Relayed /\ lastEnd.class = "ok" /\ events[1].model = Cands[mi])
  /\ (pc = "done" /\ req.stream /\ mi >= 1 /\ ~Relayed) =>
        /\ events = <<>> /\ resp.body = <<>>
        /\ resp.statusCode >= 400
        /\ resp.error \in {"Upstream rejected", "Network/timeout"}
        /\ mi = Len(Cands) /\ tried = Cands
        /\ lastEnd.class \in {"retryable", "terminal"}
        /\ lastEnd.class = "retryable" => lastEnd.attempt = MAX_TRIES

\* C13 happens: the caller's model and both pool models failed to stream, the
\* last one three times
C13_Witness ==
  /\ pc = "done" /\ req.stream /\ req.model = "my-model"
  /\ Len(tried) = 1 + PoolLen
  /\ resp.statusCode = 502 /\ lastEnd.attempt = MAX_TRIES
  /\ events = <<>>

\* the first fetch of the request is in flight
FirstFetch == pc \in {"first", "stream"} /\ ipc = "inflight" /\ tries = 1 /\ mi = 1
\* no entry of the messages is a user message or has text
NothingToSay(r) ==
  \A i \in 1..Len(arrayOf(r)) :
    arrayOf(r)[i].role # "user" /\ Trim(arrayOf(r)[i].content) = <<>>

\* C14: whatever the request body (messages absent, empty, not an array, or
\* made of entries that give no segment), the turn sequence of the first
\* fetch has at least one turn and each of its turns has at least one
\* segment; when the messages give no turn, it is the single user turn made
\* of the trimmed system string if that is not blank, else of the placeholder.
C14_NeverZeroTurns ==
  FirstFetch =>
    /\ Len(contents) >= 1
    /\ \A i \in 1..Len(contents) : Len(contents[i].parts) >= 1
    /\ NothingToSay(req) =>
          /\ Len(contents) = 1
          /\ contents[1].role = "user"
          /\ Len(contents[1].parts) = 1
          /\ contents[1].parts[1] =
                <<GUARD>> \o (IF \A i \in 1..Len(req.system) : req.system[i] \in WS
                              THEN <<SEED_DEFAULT>>
                              ELSE Trim(req.system))
    /\ ~NothingToSay(req) => Len(contents) <= Len(req.messages)

\* C14 happens: the only message gives no segment and the fallback turn is
\* made of the trimmed system string
C14_Witness ==
  /\ FirstFetch
  /\ req.messages = << [role |-> "model", content |-> <<>>] >>
  /\ req.messagesIsArray
  /\ contents = << [role |-> "user", parts |-> << <<GUARD, "s">> >>] >>

\* C15: in the prompt/messages variant the contents of the first transport
\* call have at least one turn, whatever the request body.
C15_PromptNeverZeroTurns ==
  FirstFetch => Len(contents) >= 1

\* the turns whose text holds the guardrail block, and the user turns
GuardTurns ==
  {i \in 1..Len(contents) :
     \E j \in 1..Len(contents[i].parts) :
       \E k \in 1..Len(contents[i].parts[j]) : contents[i].parts[j][k] = GUARD}
UserTurns == {i \in 1..Len(contents) : contents[i].role = "user"}

\* C16: in the turn sequence built from any message list the guardrail block
\* is in the text of exactly one turn, and that turn is the first turn whose
\* role is user.
C16_GuardOnFirstUserTurn ==
  FirstFetch =>
    /\ Cardinality(GuardTurns) = 1
    /\ UserTurns # {}
    /\ \A i \in GuardTurns : \A u \in UserTurns : i <= u
    /\ GuardTurns \subseteq UserTurns

NotRequested(m) == m # req.model

\* C17: the candidate list is never empty and names no model twice; for
\* model "auto" or empty it is the pool in pool order; for another model it
\* is that model followed by the pool, in pool order, without that model, so
\* as long as the pool if the model is in the pool and one longer if not.
\* The first fetch goes to the head of the list.
C17_CandidateList ==
  FirstFetch =>
    /\ Len(Cands) >= 1
    /\ \A i, j \in 1..Len(Cands) : Cands[i] = Cands[j] => i = j
    /\ req.model \in {"auto", ""} => Cands = MODEL_POOL
    /\ req.model \notin {"auto", ""} =>
          /\ Cands = <<req.model>> \o SelectSeq(MODEL_POOL, NotRequested)
          /\ Len(Cands) = IF \E i \in 1..PoolLen : MODEL_POOL[i] = req.model
                          THEN PoolLen ELSE PoolLen + 1
    /\ lastCall.model = Cands[1]

\* C17 happens: the request names the last model of the pool, which heads a
\* list as long as the pool
C17_Witness ==
  /\ FirstFetch /\ req.model = MODEL_POOL[PoolLen]
  /\ Len(Cands) = PoolLen /\ Cands[1] = MODEL_POOL[PoolLen]
  /\ Cands[PoolLen] = MODEL_POOL[PoolLen - 1]

\* the handler returns status code at once, without any fetch
RejectedWith(code) ==
  /\ pc' = "done" /\ ipc' = "none"
  /\ resp'.statusCode = code
  /\ tries' = 0 /\ tried' = <<>> /\ lastCall' = NoCall /\ mi' = 0

\* C18: a request that fails a boundary check is answered without any fetch,
\* retry or fallback: OPTIONS with 204, another method than POST with 405,
\* and a POST within the rate limit with 500 when the credential is missing
\* and, the credential present, with 400 when the body is not JSON.
C18_RejectedAtBoundary ==
  [][ pc = "idle" =>
        /\ req'.method = "OPTIONS" => RejectedWith(204)
        /\ req'.method \notin {"OPTIONS", "POST"} => RejectedWith(405)
        /\ (req'.method = "POST" /\ rateCheck(bucket).ok /\ ~req'.hasKey) =>
              RejectedWith(500)
        /\ (req'.method = "POST" /\ rateCheck(bucket).ok /\ req'.hasKey
              /\ ~req'.bodyOk) => RejectedWith(400) ]_vars

\* C18 happens: a POST whose body is not JSON got 400 and nothing was fetched
C18_Witness ==
  /\ pc = "done" /\ req.method = "POST" /\ req.hasKey /\ ~req.bodyOk
  /\ resp.statusCode = 400 /\ resp.error = "Invalid JSON body"
  /\ tries = 0 /\ tried = <<>> /\ lastCall = NoCall

(* --------------------- Appending a continuation ----------------------- *)
\* HEAD_CHARS characters that end a text asking for a continuation
LongHead == [i \in 1..HEAD_CHARS |-> IF i = HEAD_CHARS THEN "-" ELSE "a"]
\* accumulated texts when the loop continues: trimmed, and shouldContinue
\* holds of them
DedupPrevs ==
  { <<"-">>, <<"a", "-">>, <<"x", "a", "-">>, <<"x", " ", "a", "-">>, <<"b", ELLIPSIS>>,
    LongHead, <<"x">> \o LongHead, <<"x", " ">> \o LongHead,
    LongHead \o <<"b", "-">>, <<"a">> \o LongHead \o <<" ", "b", "-">> }
\* texts of a continuation call: trimmed and not empty; up to HEAD_CHARS
\* characters, and longer
DedupNexts ==
  { <<"-">>, <<"a", "-">>, <<"a", "-", "b">>, <<"b">>, <<"a", "-", " ", "b">>,
    LongHead, LongHead \o <<"b">>, LongHead \o <<" ", "b">>,
    LongHead \o <<NL, " ", "b", " ", "c">>, <<"b">> \o LongHead,
    <<"a">> \o LongHead }

\* the loop is at its first continuation call (line 240), sent for one of
\* the accumulated texts
DedupInit ==
  /\ pc = "cont" /\ ipc = "inflight"
  /\ req = DefaultRequest
  /\ bucket = [count |-> 1, resetAt |-> RATE_WINDOW_MS]
  /\ now = 0 /\ mi = 1
  /\ inv = [model |-> MODEL_POOL[1], stream |-> FALSE,
            timeout |-> timeoutOf(DefaultRequest), attempt |-> 1]
  /\ first \in {[NoResult EXCEPT !.ok = TRUE, !.text = t] : t \in DedupPrevs}
  /\ text = first.text
  /\ chunks = 1
  /\ contents = buildContents(DefaultRequest) \o
                  << [role |-> "model", parts |-> <<text>>],
                     [role |-> "user",
                      parts |-> << <<continuePrompt(langOf(DefaultRequest))>> >>] >>
  /\ resp = NoResp
  /\ tries = 1 /\ tried = <<MODEL_POOL[1]>>
  /\ lastCall = [model |-> MODEL_POOL[1], stream |-> FALSE, shape |-> "cont",
                 attempt |-> 1]
  /\ lastEnd = [class |-> "ok", model |-> MODEL_POOL[1], shape |-> "first",
                attempt |-> 1]
  /\ atEval = "high"
  /\ events = <<>> /\ buffer = <<>> /\ sinceHb = 0 /\ reads = 0
  /\ received = <<>> /\ firstWait = 0

\* the continuation call returns a text, which is appended (lines 241-244)
ContAppends ==
  /\ pc = "cont" /\ chunks = 1
  /\ \E next \in DedupNexts :
       /\ received' = next
       /\ text' = appendChunk(text, next)
  /\ chunks' = chunks + 1
  /\ ipc' = "none"
  /\ UNCHANGED <<pc, req, bucket, now, mi, inv, first, contents, resp, tries, tried,
                 lastCall, lastEnd, atEval, events, buffer, sinceHb, reads, firstWait>>

DedupSpec == DedupInit /\ [][ContAppends]_vars

(* ---------------------- Concurrent invocations ------------------------ *)
\* Several invocations of the handler run in one warm instance and interleave
\* at their awaits.  In this specification the handler's variables hold one
\* value per invocation (pc[i], req[i], mi[i], text[i], chunks[i],
\* contents[i], resp[i]); `bucket` is the module's Map, from client key to
\* entry; `now` is Date.now(); inv[i] is the client key and the start time of
\* invocation i; lastCall[i] is the last body invocation i sent upstream;
\* tried[k] is the history of the key's window (when the first request of
\* the window was admitted, how many were admitted since); tries counts the
\* requests received.  A tryJSONOnce invocation is one step: its retries
\* read and write nothing of the handler.
Invocations == {1, 2}
ClientKeys == {"ip1::ua", "ip2::ua"}
\* requests received in one run
MaxArrivals == 3
\* the values of Date.now() at which something happens
Instants == {0, 1, RATE_WINDOW_MS, RATE_WINDOW_MS + 1}
\* the same for the runs that follow the continuation loops
ConcInstants == {0, DEFAULT_TIMEOUT_MS - CONT_MARGIN_MS}
\* requests without continuations, and the ones refused at the entry
RateRequests ==
  { [DefaultRequest EXCEPT !.long = FALSE],
    [DefaultRequest EXCEPT !.method = "GET"],
    [DefaultRequest EXCEPT !.hasKey = FALSE] }
\* requests of the default mode (the strict recovery is not for them): an
\* English one for the pool and an Arabic one for a model of its own
ConcRequests ==
  { [DefaultRequest EXCEPT !.max_chunks = <<3>>],
    [DefaultRequest EXCEPT !.max_chunks = <<3>>, !.model = "my-model",
                           !.messages = <<ArabicMessage>>] }
\* what the upstream answers to a call: an error, a text that asks for a
\* continuation, a text that does not
ConcOutcomes ==
  { [kind |-> "http", status |-> 500, parts |-> <<>>],
    [kind |-> "http", status |-> 200, parts |-> << <<"a", ELLIPSIS>> >>],
    [kind |-> "http", status |-> 200, parts |-> << <<"{", "}">> >>] }
\* the entries the Map can have for a key when the run starts
ConcBuckets == {NoBucket, [count |-> RATE_MAX_REQ - 1, resetAt |-> RATE_WINDOW_MS]}
NoWindow == [opened |-> 0, admitted |-> 0]
NoCtx == [key |-> "", started |-> 0]
NoSent == [model |-> "", contents |-> <<>>]

\* the history of a key's window after a request is admitted at t
admit(h, t) ==
  IF h.admitted = 0 \/ t > h.opened + RATE_WINDOW_MS
  THEN [opened |-> t, admitted |-> 1]
  ELSE [h EXCEPT !.admitted = @ + 1]

\* a warm instance whose Map is one of B, with no invocation running
InitWith(B) ==
  /\ pc = [i \in Invocations |-> "idle"]
  /\ req = [i \in Invocations |-> DefaultRequest]
  /\ bucket \in B
  /\ tried = [k \in ClientKeys |->
                IF bucket[k] = NoBucket THEN NoWindow
                ELSE [opened |-> 0, admitted |-> bucket[k].count]]
  /\ now = 0 /\ tries = 0
  /\ inv = [i \in Invocations |-> NoCtx]
  /\ mi = [i \in Invocations |-> 0]
  /\ text = [i \in Invocations |-> <<>>]
  /\ chunks = [i \in Invocations |-> 0]
  /\ contents = [i \in Invocations |-> <<>>]
  /\ resp = [i \in Invocations |-> NoResp]
  /\ lastCall = [i \in Invocations |-> NoSent]
  /\ ipc = "none" /\ first = NoResult /\ lastEnd = NoEnd /\ atEval = "none"
  /\ events = <<>> /\ buffer = <<>> /\ sinceHb = 0 /\ reads = 0
  /\ received = <<>> /\ firstWait = 0

\* what no step of an invocation changes
Aside ==
  UNCHANGED <<ipc, first, lastEnd, atEval, events, buffer, sinceHb, reads,
              received, firstWait>>

\* invocation i returns r
ReturnOf(i, r) ==
  /\ pc' = [pc EXCEPT ![i] = "done"]
  /\ resp' = [resp EXCEPT ![i] = r]

\* invocation i sends its body to candidate m (makeBody(), line 208)
SendOf(i, m, cs) == lastCall' = [lastCall EXCEPT ![i] = [model |-> m, contents |-> cs]]

\* the handler is entered with a request of R from a client of K: lines
\* 58-152 and the first call of line 213
ReceiveOf(i, R, K) ==
  /\ pc[i] = "idle"
  /\ tries < MaxArrivals
  /\ tries' = tries + 1
  /\ UNCHANGED now
  /\ \E k \in K, r \in R :
       LET rl == rateCheckAt(bucket[k], now)
       IN  /\ req' = [req EXCEPT ![i] = r]
           /\ inv' = [inv EXCEPT ![i] = [key |-> k, started |-> now]]
           /\ mi' = [mi EXCEPT ![i] = 1]
           /\ text' = [text EXCEPT ![i] = <<>>]
           /\ chunks' = [chunks EXCEPT ![i] = 0]
           /\ IF r.method # "POST"
              THEN /\ ReturnOf(i, [NoResp EXCEPT !.statusCode = 405,
                                                 !.error = "Method Not Allowed"])
                   /\ SendOf(i, "", <<>>)
                   /\ contents' = [contents EXCEPT ![i] = <<>>]
                   /\ UNCHANGED <<bucket, tried>>
              ELSE /\ bucket' = [bucket EXCEPT ![k] = rl.bucket]
                   /\ IF ~rl.ok
                      THEN /\ ReturnOf(i, [NoResp EXCEPT
                                             !.statusCode = 429,
                                             !.error = "Rate limit exceeded",
                                             !.requestId = REQ_ID,
                                             !.retry_after_seconds = rl.retryAfter])
                           /\ SendOf(i, "", <<>>)
                           /\ contents' = [contents EXCEPT ![i] = <<>>]
                           /\ UNCHANGED tried
                      ELSE /\ tried' = [tried EXCEPT ![k] = admit(@, now)]
                           /\ IF ~r.hasKey
                              THEN /\ ReturnOf(i, [NoResp EXCEPT
                                                     !.statusCode = 500,
                                                     !.error = "Missing GEMINI_API_KEY",
                                                     !.requestId = REQ_ID])
                                   /\ SendOf(i, "", <<>>)
                                   /\ contents' = [contents EXCEPT ![i] = <<>>]
                              ELSE /\ contents' = [contents EXCEPT ![i] = buildContents(r)]
                                   /\ SendOf(i, candidatesOf(r)[1], buildContents(r))
                                   /\ pc' = [pc EXCEPT ![i] = "first"]
                                   /\ resp' = [resp EXCEPT ![i] = NoResp]
  /\ Aside

\* a continuation loop over one turn sequence kept in module memory, which
\* every invocation pushes to and sends
ContinueOrReturnOfShared(i, txt, ch) ==
  /\ text' = [text EXCEPT ![i] = txt]
  /\ chunks' = [chunks EXCEPT ![i] = ch]
  /\ IF /\ req[i].long
        /\ ch < maxChunksOf(req[i])
        /\ shouldContinue(txt)
        /\ timeLeft(now - inv[i].started, timeoutOf(req[i])) > CONT_MARGIN_MS
     THEN LET turns == << [role |-> "model", parts |-> <<txt>>],
                          [role |-> "user",
                           parts |-> << <<continuePrompt(langOf(req[i]))>> >>] >>
          IN  /\ contents' = [j \in Invocations |-> contents[j] \o turns]
              /\ SendOf(i, candidatesOf(req[i])[mi[i]], contents[i] \o turns)
              /\ pc' = [pc EXCEPT ![i] = "cont"]
              /\ UNCHANGED resp
     ELSE /\ ReturnOf(i, ok(finalize(txt, langOf(req[i]), req[i].expect, req[i].mode),
                            candidatesOf(req[i])[mi[i]], langOf(req[i])))
          /\ UNCHANGED <<contents, lastCall>>

\* the while loop of lines 237-245 at its condition, then line 247, in
\* invocation i
ContinueOrReturnOf(i, txt, ch) ==
  /\ text' = [text EXCEPT ![i] = txt]
  /\ chunks' = [chunks EXCEPT ![i] = ch]
  /\ IF /\ req[i].long
        /\ ch < maxChunksOf(req[i])
        /\ shouldContinue(txt)
        /\ timeLeft(now - inv[i].started, timeoutOf(req[i])) > CONT_MARGIN_MS
     THEN LET cs == contents[i] \o
                      << [role |-> "model", parts |-> <<txt>>],
                         [role |-> "user",
                          parts |-> << <<continuePrompt(langOf(req[i]))>> >>] >>
          IN  /\ contents' = [contents EXCEPT ![i] = cs]
              /\ SendOf(i, candidatesOf(req[i])[mi[i]], cs)
              /\ pc' = [pc EXCEPT ![i] = "cont"]
              /\ UNCHANGED resp
     ELSE /\ ReturnOf(i, ok(finalize(txt, langOf(req[i]), req[i].expect, req[i].mode),
                            candidatesOf(req[i])[mi[i]], langOf(req[i])))
          /\ UNCHANGED <<contents, lastCall>>

\* attempt 1 on the current candidate of invocation i returns (lines 213-230)
FirstReturnsOf(i) ==
  /\ pc[i] = "first"
  /\ \E o \in ConcOutcomes :
       LET f == jsonResult(o)
       IN  IF ~f.ok
           THEN /\ IF mi[i] = Len(candidatesOf(req[i]))
                   THEN /\ ReturnOf(i, upstreamError(f, candidatesOf(req[i])[mi[i]]))
                        /\ UNCHANGED <<mi, lastCall>>
                   ELSE /\ mi' = [mi EXCEPT ![i] = @ + 1]
                        /\ SendOf(i, candidatesOf(req[i])[mi[i] + 1], contents[i])
                        /\ UNCHANGED <<pc, resp>>
                /\ UNCHANGED <<text, chunks, contents>>
           ELSE /\ ContinueOrReturnOf(i, f.text, 1)
                /\ UNCHANGED mi
  /\ UNCHANGED <<req, bucket, now, inv, tries, tried>>
  /\ Aside

\* a continuation call of invocation i returns (lines 240-244)
ContReturnsOf(i) ==
  /\ pc[i] = "cont"
  /\ \E o \in ConcOutcomes :
       LET next == jsonResult(o)
       IN  IF ~next.ok
           THEN /\ ReturnOf(i, ok(finalize(text[i], langOf(req[i]), req[i].expect,
                                           req[i].mode),
                                  candidatesOf(req[i])[mi[i]], langOf(req[i])))
                /\ UNCHANGED <<text, chunks, contents, lastCall>>
           ELSE ContinueOrReturnOf(i, appendChunk(text[i], next.text), chunks[i] + 1)
  /\ UNCHANGED <<req, bucket, now, inv, mi, tries, tried>>
  /\ Aside

\* time passes while the invocations wait, up to an instant of T
PassTo(T) ==
  /\ \E t \in T : t > now /\ now' = t
  /\ UNCHANGED <<pc, req, bucket, inv, mi, text, chunks, contents, resp, lastCall,
                 tries, tried>>
  /\ Aside

\* the response of invocation i is delivered and its locals are gone
LeaveOf(i) ==
  /\ pc[i] = "done"
  /\ pc' = [pc EXCEPT ![i] = "idle"]
  /\ req' = [req EXCEPT ![i] = DefaultRequest]
  /\ inv' = [inv EXCEPT ![i] = NoCtx]
  /\ mi' = [mi EXCEPT ![i] = 0]
  /\ text' = [text EXCEPT ![i] = <<>>]
  /\ chunks' = [chunks EXCEPT ![i] = 0]
  /\ contents' = [contents EXCEPT ![i] = <<>>]
  /\ resp' = [resp EXCEPT ![i] = NoResp]
  /\ lastCall' = [lastCall EXCEPT ![i] = NoSent]
  /\ UNCHANGED <<bucket, now, tries, tried>>
  /\ Aside

FirstEnds == \E i \in Invocations : FirstReturnsOf(i)
Leaves == \E i \in Invocations : LeaveOf(i)
ContEnds == \E i \in Invocations : ContReturnsOf(i)

\* the limiter under concurrent requests of two clients, over two windows
RateInit == InitWith([ClientKeys -> ConcBuckets])
RateArrives == \E i \in Invocations : ReceiveOf(i, RateRequests, ClientKeys)
RatePass == PassTo(Instants)
RateNext == RateArrives \/ FirstEnds \/ Leaves \/ RatePass
RateSpec == RateInit /\ [][RateNext]_vars

\* the continuation loops of concurrent requests
ConcInit == InitWith({[k \in ClientKeys |-> NoBucket]})
ConcArrives == \E i \in Invocations : ReceiveOf(i, ConcRequests, {"ip1::ua"})
ConcPass == PassTo(ConcInstants)
ConcNext == ConcArrives \/ FirstEnds \/ ContEnds \/ Leaves \/ ConcPass
ConcSpec == ConcInit /\ [][ConcNext]_vars

\* the object inside the fenced block that `text` is
Unwrapped ==
  SubSeq(text, Len(fenceJson_) + 2, Len(text) - Len(fence_) - 1)

\* C19: extraction undoes the wrapping: for every JSON object put in a fenced
\* block tagged json, strings with braces or grave accents included, the
\* extracted value is the object.
C19_ExtractUndoesFence ==
  pc = "done" =>
    /\ tryExtractJson(text).ok
    /\ tryExtractJson(text).json = Unwrapped
    /\ resp.text = Unwrapped

\* the 200 response of line 247 to a request that expects structured output:
\* the first attempt succeeded and `text` is the model text accumulated from
\* it and its continuations
StructuredAnswer ==
  /\ pc = "done" /\ ~req.stream /\ resp.statusCode = 200 /\ first.ok
  /\ expectingJson(req.expect, req.mode)

\* C20: when structured output is expected, the text of the 200 response is
\* the extracted JSON payload if extraction succeeds, and otherwise it is the
\* raw model text with an extraction-failure marker; the response body has no
\* field but text to carry a marker (text, model, lang, requestId, took_ms,
\* usage), so the text of the failure case is not the bare raw text.
C20_ExtractionFailureMarked ==
  StructuredAnswer =>
    IF tryExtractJson(text).ok
    THEN resp.text = tryExtractJson(text).json
    ELSE resp.text # text

\* the window of key k is open and full: RATE_MAX_REQ requests were admitted
\* since its first one, at most RATE_WINDOW_MS ago
WindowFull(k) ==
  /\ tried[k].admitted >= RATE_MAX_REQ
  /\ now <= tried[k].opened + RATE_WINDOW_MS

\* C21: for every client key the requests admitted in one window (from its
\* first admitted request to RATE_WINDOW_MS later) are at most RATE_MAX_REQ,
\* however the concurrent requests interleave; the stored count of a key is
\* between 1 and RATE_MAX_REQ; a POST request that arrives when the window of
\* its key is full is answered 429 at once, with no upstream call, and leaves
\* the Map as it is; and a request answered 429 made no upstream call.
C21_RateWindow ==
  /\ [](/\ \A k \in ClientKeys :
            /\ tried[k].admitted <= RATE_MAX_REQ
            /\ bucket[k] # NoBucket => bucket[k].count \in 1..RATE_MAX_REQ
       /\ \A i \in Invocations :
            resp[i].statusCode = 429 => pc[i] = "done" /\ lastCall[i] = NoSent)
  /\ [][\A i \in Invocations :
          (pc[i] = "idle" /\ pc'[i] # "idle" /\ req'[i].method = "POST"
             /\ WindowFull(inv'[i].key)) =>
            /\ pc'[i] = "done"
            /\ resp'[i].statusCode = 429
            /\ resp'[i].retry_after_seconds =
                 (tried[inv'[i].key].opened + RATE_WINDOW_MS - now + 999) \div 1000
            /\ lastCall'[i] = NoSent
            /\ bucket' = bucket /\ tried' = tried]_vars

\* the sixtieth request of a window was admitted and is waiting for its
\* upstream call while a concurrent request of the same client is refused
C21_Witness ==
  \E i \in Invocations, j \in Invocations :
    /\ pc[i] = "first" /\ pc[j] = "done" /\ resp[j].statusCode = 429
    /\ inv[i].key = inv[j].key
    /\ bucket[inv[i].key].count = RATE_MAX_REQ
    /\ tried[inv[i].key].admitted = RATE_MAX_REQ

\* C22: the strict recovery runs only for a request that wants structured
\* output and only when the first attempt on the current candidate ended
\* empty or blocked, never after a retryable, network or terminal failure; it
\* goes to the candidate that just failed, before the next one is tried; and
\* it is left for the next candidate or for the response, so it runs at most
\* once per candidate.
C22_StrictOnlyWhenBlocked ==
  /\ [](pc = "strict" =>
          /\ wantsStrict(req)
          /\ first.error.error = "Empty/blocked response"
          /\ lastCall.shape = "strict"
          /\ lastCall.model = candidatesOf(req)[mi])
  /\ [][/\ (pc # "strict" /\ pc' = "strict") =>
            /\ pc = "first" /\ mi' = mi
            /\ lastEnd'.class = "empty" /\ lastEnd'.shape = "first"
            /\ lastEnd'.model = lastCall'.model
            /\ lastCall'.attempt = 1
        /\ (pc = "first" /\ lastEnd' # lastEnd /\ lastEnd'.class # "empty") =>
             (pc' # "strict")
        /\ (pc = "strict" /\ pc' # "strict") =>
             (pc' = "done" \/ (pc' = "first" /\ mi' = mi + 1))]_vars

\* the strict recovery runs on the second candidate, after the first
\* candidate was given up
C22_Witness ==
  /\ pc = "strict" /\ mi = 2 /\ ipc = "inflight"
  /\ lastCall.model = candidatesOf(req)[2]

\* a step that issues a fetch
Issued == lastCall' # lastCall \/ tries' # tries \/ (ipc' = "inflight" /\ ipc # "inflight")
\* a step in which the fetch in flight ends, answered, failed or aborted
EndedLast ==
  /\ lastEnd' # lastEnd
  /\ lastEnd'.model = lastCall.model /\ lastEnd'.shape = lastCall.shape
  /\ lastEnd'.attempt = lastCall.attempt

\* C23: within one request a fetch is issued only when none is in flight or
\* in the very step in which the one in flight ends (a retry after its
\* backoff, a fallback, a recovery or a continuation call after the previous
\* call returned); no fetch is in flight while the handler sleeps between
\* tries, relays the stream or has returned, and the relay issues none.
C23_OneCallAtATime ==
  /\ [](/\ ipc \in {"none", "inflight", "sleeping"}
        /\ pc \in {"idle", "done", "relay"} => ipc = "none"
        /\ ipc = "inflight" =>
             /\ lastCall.attempt = inv.attempt /\ lastCall.model = inv.model
             /\ tries = inv.attempt)
  /\ [][/\ (Issued /\ ipc = "inflight") => EndedLast
        /\ pc = "relay" => ~Issued]_vars

\* the second try of a retry loop is in flight and the first one has ended
C23_Witness ==
  /\ ipc = "inflight" /\ lastCall.attempt = 2
  /\ lastEnd.attempt = 1 /\ lastEnd.class = "retryable"
  /\ lastEnd.model = lastCall.model /\ lastEnd.shape = lastCall.shape

\* the turns invocation i was given: what its own request normalizes to
OwnTurns(i) == buildContents(req[i])
\* the locals of invocation i
LocalsOf(i) ==
  <<pc[i], req[i], inv[i], mi[i], text[i], chunks[i], contents[i], resp[i], lastCall[i]>>
IsPrefix(s, t) == Len(s) <= Len(t) /\ SubSeq(t, 1, Len(s)) = s

\* C24: while concurrent requests interleave at their awaits, the body a
\* request sends upstream holds the turns of its own messages followed by the
\* turns its own continuation loop pushed (its own accumulated text, its own
\* language's continuation prompt) and nothing of another request; it goes to
\* the current candidate of the request's own list; and a step of one request
\* leaves the locals of every other request as they were.
C24_RequestsIsolated ==
  /\ [](\A i \in Invocations :
          pc[i] \in {"first", "cont"} =>
            LET base == Len(OwnTurns(i))
                pushed == IF pc[i] = "cont" THEN chunks[i] ELSE 0
            IN  /\ lastCall[i].contents = contents[i]
                /\ lastCall[i].model = candidatesOf(req[i])[mi[i]]
                /\ Len(contents[i]) = base + 2 * pushed
                /\ SubSeq(contents[i], 1, base) = OwnTurns(i)
                /\ \A n \in 1..pushed :
                     /\ contents[i][base + 2 * n - 1].role = "model"
                     /\ IsPrefix(contents[i][base + 2 * n - 1].parts[1], text[i])
                     /\ contents[i][base + 2 * n] =
                          [role |-> "user",
                           parts |-> << <<continuePrompt(langOf(req[i]))>> >>]
                /\ pushed > 0 => contents[i][base + 2 * pushed - 1].parts = <<text[i]>>)
  /\ [][\A i \in Invocations, j \in Invocations :
          (i # j /\ LocalsOf(i)' # LocalsOf(i)) => LocalsOf(j)' = LocalsOf(j)]_vars

\* two requests in different languages are both in their continuation loops,
\* one of them at its second continuation
C24_Witness ==
  /\ pc[1] = "cont" /\ pc[2] = "cont"
  /\ langOf(req[1]) # langOf(req[2])
  /\ chunks[1] = 2 /\ chunks[2] = 1

\* C25: every fetch, the second and third try of a retry loop included, is
\* issued with an abort timer equal to the budget that remains when it is
\* issued (timeout_ms minus the time elapsed since the request started), so
\* the timer of a fetch in flight never ends after the request's deadline.
C25_TimerIsRemainingBudget ==
  ipc = "inflight" =>
    /\ inv.timeout = timeLeft(now, timeoutOf(req))
    /\ now + inv.timeout <= timeoutOf(req)

\* C26: the delay slept before try k of a retry loop (k = 2 or 3) is an
\* integer from BASE_BACKOFF_MS * 2^(k-2) to BASE_BACKOFF_MS * 2^(k-2) + 399,
\* that is 650..1049 before the second try and 1300..1699 before the third;
\* the loop sleeps only after a failed try that is not the last, so never
\* before the first try and never after the third.
C26_BackoffWindow ==
  /\ [](ipc = "sleeping" =>
          /\ inv.attempt \in 1..(MAX_TRIES - 1)
          /\ lastEnd.attempt = inv.attempt /\ lastEnd.class = "retryable")
  /\ [][/\ (ipc = "sleeping" /\ ipc' # "sleeping") =>
             LET k == lastCall'.attempt
                 low == IF k = 2 THEN BASE_BACKOFF_MS ELSE 2 * BASE_BACKOFF_MS
             IN  /\ k \in {2, 3} /\ k = lastCall.attempt + 1
                 /\ ipc' = "inflight"
                 /\ now' < MaxClock =>
                      (now' - now >= low /\ now' - now < low + JITTER_SPAN)
        /\ (Issued /\ lastCall'.attempt = 1) => ipc # "sleeping"
        /\ (ipc = "inflight" /\ lastCall.attempt = MAX_TRIES) => ipc' # "sleeping"]_vars

\* the third try of a loop is in flight after the two shortest backoffs
C26_Witness ==
  /\ ipc = "inflight" /\ lastCall.attempt = MAX_TRIES /\ mi = 1
  /\ now = 3 * BASE_BACKOFF_MS

\* C27: the strict recovery of a candidate is exactly one more fetch to that
\* candidate, whatever its outcome: the fetch of the recovery is never a
\* second or third try, and the recovery does not sleep.
C27_StrictIsOneFetch ==
  pc = "strict" =>
    /\ ipc = "inflight"
    /\ lastCall.shape = "strict" /\ lastCall.attempt = 1 /\ tries = 1

\* C28: the generation preferences of a strict recovery are stricter than
\* those of the first attempt it follows: whatever the request that set it
\* off (mode plan, mode qa or expect = json), its temperature is strictly
\* below the temperature of the request's own preferences.
C28_StrictIsStricter ==
  (pc = "strict" /\ ipc = "inflight") =>
    generationConfigOf(req, lastCall.shape).temperature
      < generationConfigOf(req, "first").temperature

\* C29: the candidate-exhaustion error reports the last transport outcome
\* seen on the last candidate, the outcome of its strict recovery included:
\* an empty answer is reported as empty/blocked and nothing else is, a
\* rejected call as rejected, and the error is about the model and the call
\* that ended last.
C29_LastOutcomeReported ==
  (pc = "done" /\ resp.error = "Upstream error") =>
    /\ lastEnd.model = resp.modelTried
    /\ lastEnd.class = "empty" <=> resp.upstream.error = "Empty/blocked response"
    /\ lastEnd.class = "terminal" =>
         resp.upstream.error = "Upstream rejected" /\ resp.statusCode = resp.upstream.status
    /\ lastEnd.class = "retryable" =>
         resp.upstream.error \in {"Upstream rejected", "Network/timeout"}

\* the first HEAD_CHARS characters of the text the continuation returned, and
\* what follows them
OverlapHead == SubSeq(received, 1, Min2(HEAD_CHARS, Len(received)))
AfterHead == SubSeq(received, Len(OverlapHead) + 1, Len(received))

\* C30 as stated: the text appended is the continuation's text unchanged when
\* the accumulated text does not end with its first 200 characters (with all
\* of it, if it is shorter), and otherwise exactly what follows those
\* characters; it is appended after a single newline.
C30_DedupExact ==
  (pc = "cont" /\ chunks = 2) =>
    text = first.text \o <<NL>> \o
             (IF EndsWith(first.text, OverlapHead) THEN AfterHead ELSE received)

\* C30, amended: the text appended is the continuation's text unchanged when
\* the accumulated text does not end with its first 200 characters (with all
\* of it, if it is shorter), and otherwise what follows those characters with
\* its leading white space removed; it is appended after a single newline,
\* and when it is empty nothing is appended, no newline either.
C30_DedupStripsOverlap ==
  (pc = "cont" /\ chunks = 2) =>
    LET out == IF EndsWith(first.text, OverlapHead) THEN TrimStart(AfterHead)
               ELSE received
    IN  /\ dedupeContinuation(first.text, received) = out
        /\ text = IF out = <<>> THEN first.text ELSE first.text \o <<NL>> \o out

\* a continuation longer than 200 characters repeated the end of the text,
\* and white space follows the repeated part
C30_Witness ==
  /\ pc = "cont" /\ chunks = 2
  /\ Len(received) > HEAD_CHARS /\ EndsWith(first.text, OverlapHead)
  /\ AfterHead[1] \in WS
  /\ text = first.text \o <<NL>> \o TrimStart(AfterHead)

\* the two turns a continuation adds when the accumulated text is t
ContTurns(t) ==
  << [role |-> "model", parts |-> <<t>>],
     [role |-> "user", parts |-> << <<continuePrompt(langOf(req))>> >>] >>
\* the turns added to the normalized sequence since line 138
Appended == SubSeq(contents, Len(buildContents(req)) + 1, Len(contents))

\* C31: in the non-streaming path the turn sequence starts with the
\* normalized sequence and is followed by two turns for each continuation
\* invocation, a model turn then a user turn holding the continuation
\* instruction; the sequence changes only when a continuation is issued, and
\* then by exactly these two turns at its end, the model turn holding the
\* whole accumulated text.
C31_ContinuationOnlyAppends ==
  /\ [](Unary =>
         /\ IsPrefix(buildContents(req), contents)
         /\ Len(Appended) % 2 = 0
         /\ \A i \in 1..Len(Appended) :
              IF i % 2 = 1
              THEN Appended[i].role = "model"
              ELSE Appended[i] = ContTurns(<<>>)[2])
  /\ [][ /\ (pc # "idle" /\ contents' # contents =>
              (/\ pc \in {"first", "cont"} /\ pc' = "cont" /\ ipc' = "inflight"
               /\ contents' = contents \o ContTurns(text')))
         /\ (pc \in {"first", "cont"} /\ pc' = "cont" /\ ipc = "inflight" /\ ipc' = "inflight" =>
              (contents' = contents \o ContTurns(text')))
     ]_vars
C31_Witness ==
  /\ pc = "done" /\ ~req.stream /\ resp.statusCode = 200
  /\ Continuations = 2
  /\ Appended[1].parts # Appended[3].parts

\* the events a step of the relay emits
Emitted == SubSeq(events', Len(events) + 1, Len(events'))

\* C32: a ping event is emitted only when more than 5000 ms have passed since
\* the chunk event before it (since the meta event when there is none): the
\* events one read gives rise to, which are emitted at one instant, never hold
\* a chunk event followed by a ping event.
C32_PingOnlyAfterSilence ==
  [][ (pc = "relay" /\ Len(events') > Len(events)) =>
        \A i \in 1..Len(Emitted) :
          Emitted[i].type = "ping" =>
            \A j \in 1..i : Emitted[j].type # "chunk" ]_vars

\* the handler of a non-streaming request waits at one of its awaits
Awaiting == pc \in {"first", "strict", "cont"}

\* C33: when every upstream call settles, a non-streaming request that
\* reached the candidate loop comes to its return, and a response once
\* returned is not replaced; on the way no retry loop makes more than
\* MAX_TRIES fetches, the candidate index stays within the list, and the chunk
\* counter, which advances at every successful continuation whether or not it
\* added text, stays within the cap.
C33_NonStreamingReturns ==
  /\ Awaiting ~> (pc = "done")
  /\ [][ resp' # resp => (pc # "done" /\ pc' = "done") ]_vars
  /\ [](Unary => /\ tries <= MAX_TRIES
                 /\ mi <= Len(Cands)
                 /\ chunks <= maxChunksOf(req))
\* C33 happens: two continuations succeeded and neither added text
C33_Witness ==
  /\ pc = "done" /\ ~req.stream /\ resp.statusCode = 200
  /\ Continuations = 2 /\ chunks = 3
  /\ text = first.text

\* C34: a request with stream = true stays in the stream loop: every call
\* issued for it is a streaming call, it never waits for a first attempt, a
\* strict recovery or a continuation, it accumulates no text, and it returns
\* either the relayed stream of the first candidate whose streaming call
\* succeeded or, every candidate having been tried, the error of the last one.
C34_StreamNeverUnary ==
  /\ []((req.stream /\ mi >= 1) =>
          /\ pc \in {"stream", "relay", "done"}
          /\ lastCall.stream /\ lastCall.shape = "stream"
          /\ first = NoResult /\ text = <<>> /\ chunks = 0
          /\ contents = buildContents(req)
          /\ (pc = "done" =>
                \/ resp.statusCode = 200 /\ lastEnd.class = "ok" /\ resp.body = events
                \/ resp.statusCode >= 400 /\ mi = Len(Cands) /\ lastEnd.class # "ok"))
  /\ [][ (req'.stream /\ lastCall' # lastCall) =>
           (lastCall'.stream /\ pc' = "stream") ]_vars
\* C34 happens: every candidate failed to stream and the request, which asked
\* for a long answer, ends with the error
C34_Witness ==
  /\ pc = "done" /\ req.stream /\ req.long
  /\ mi = Len(Cands) /\ mi >= 2
  /\ resp.statusCode >= 400

\* C35: the step in which a strict recovery succeeds is the return of the
\* request: a 200 response naming the current candidate, with no call issued,
\* no turn appended and the candidate index where it was; so a continuation
\* is only ever in flight after a first attempt that succeeded, and the last
\* call of a request that was recovered is the recovery itself.
C35_RecoveryReturnsAtOnce ==
  /\ [][ (pc = "strict" /\ ipc = "inflight" /\ pc' # "strict") =>
           /\ pc' \in {"done", "first"}
           /\ lastEnd'.class = "ok" =>
                (/\ pc' = "done" /\ resp'.statusCode = 200 /\ resp'.model = Cands[mi]
                 /\ lastCall' = lastCall /\ tried' = tried
                 /\ mi' = mi /\ contents' = contents /\ chunks' = chunks) ]_vars
  /\ [](pc = "cont" => first.ok)
  /\ []((pc = "done" /\ Unary /\ ~first.ok /\ resp.statusCode = 200) =>
          (lastCall.shape = "strict" /\ Continuations = 0 /\ chunks = 0))
\* C35 happens: the recovered text looks truncated, long is true, the chunk
\* cap is 3, and a candidate is left untried
C35_Witness ==
  /\ pc = "done" /\ lastCall.shape = "strict" /\ resp.statusCode = 200
  /\ req.long /\ maxChunksOf(req) = 3
  /\ shouldContinue(resp.text)
  /\ mi < Len(Cands)

\* a step in which the continuation call comes back to the loop (line 240)
ContEnded == pc = "cont" /\ ipc = "inflight" /\ ipc' # "sleeping"
\* what a step added to the accumulated text after the newline
Remainder == SubSeq(text', Len(text) + 2, Len(text'))

\* C36: once a first attempt succeeded its text is a prefix of the
\* accumulated text and the chunk counter is one more than the number of
\* successful continuations; a successful continuation leaves the accumulated
\* text as it is or appends to it a newline and a non-empty end of the text
\* it returned, and adds one to the counter in both cases; a failed one changes
\* neither.
C36_TextOnlyGrows ==
  /\ []((Unary /\ first.ok) =>
          /\ IsPrefix(first.text, text)
          /\ (pc = "cont" => chunks = Continuations)
          /\ (pc = "done" => chunks \in {Continuations, Continuations + 1}))
  /\ [][ ContEnded =>
           IF lastEnd'.class = "ok"
           THEN /\ chunks' = chunks + 1
                /\ \/ text' = text
                   \/ /\ IsPrefix(text \o <<NL>>, text')
                      /\ Remainder # <<>>
                      /\ \E b \in OkTexts : EndsWith(b, Remainder)
           ELSE /\ chunks' = chunks /\ text' = text /\ pc' = "done" ]_vars
\* C36 happens: of two successful continuations the first extended the text
\* and the second, repeating its end, left it unchanged
C36_Witness ==
  /\ pc = "done" /\ first.ok /\ resp.statusCode = 200
  /\ Continuations = 2 /\ chunks = 3
  /\ Appended[1].parts = <<first.text>>
  /\ Appended[3].parts = <<text>>
  /\ text # first.text

\* the chunk events emitted so far
ChunkEvents == SelectSeq(events, LAMBDA e : e.type = "chunk")
\* the lines of the data received that a newline ended and that are not blank
\* (line.trim() is not empty, lines 185-186)
FullLines ==
  SelectSeq(TerminatedLines(received), LAMBDA l : Trim(l) # <<>>)

\* C37: while a stream is relayed and after it, there are as many chunk
\* events as non-blank lines ended by a newline in the data received; what
\* was received after the last newline sits in the buffer and is in no event;
\* and the close of the upstream adds the end event and no chunk event, so
\* the data still buffered then is dropped.
C37_UnfinishedLineDropped ==
  /\ [](Relayed =>
          /\ Len(ChunkEvents) = Len(FullLines)
          /\ \A i \in 1..Len(ChunkEvents) : ChunkEvents[i].data = Trim(FullLines[i])
          /\ buffer = splitNL(received)[Len(splitNL(received))])
  /\ [][ (pc = "relay" /\ pc' = "done") =>
           (/\ events' = Append(events, Event("end", Cands[mi], <<>>))
            /\ resp'.body = events') ]_vars
\* C37 happens: the upstream closed after data that did not end with a
\* newline, a chunk having been relayed before
C37_Witness ==
  /\ pc = "done" /\ Relayed
  /\ Trim(buffer) # <<>>
  /\ Len(ChunkEvents) = 1
  /\ Len(TerminatedLines(received)) = 2

GEM_ATTEMPTS == 2
GEM_BACKOFF_MS == 400
\* the longest text of a part, first and second variant (lines 33, 123)
GEM_PART_CHARS == 8000
GEM_PART_CHARS_2 == 4000
\* the longest history of the requests below
MaxHistory == 2

CANDIDATES_BASE == <<"gemini-1.5-pro", "gemini-1.5-flash">>
\* line 9: the custom model is put first unless the list already has it
CANDIDATES(custom) ==
  IF custom # "" /\ \A i \in 1..Len(CANDIDATES_BASE) : CANDIDATES_BASE[i] # custom
  THEN <<custom>> \o CANDIDATES_BASE
  ELSE CANDIDATES_BASE
\* the model of the second variant (line 98)
MODEL(custom) == IF custom # "" THEN custom ELSE "gemini-1.5-flash"

\* the placeholder turn of lines 37 and 128; its text is named by a token
START_AR == "ibda."
Placeholder == [role |-> "user", parts |-> << [text |-> <<START_AR>>] >>]

\* an entry of history that is null: reading its role throws
NullEntry == [role |-> "null", parts |-> <<>>]
HistoryEntries ==
  { [role |-> "user", parts |-> << [text |-> <<"a">>] >>],
    [role |-> "model", parts |-> << [text |-> <<"b">>] >>],
    [role |-> "assistant", parts |-> <<>>],
    NullEntry }
Histories == UNION { [1..n -> HistoryEntries] : n \in 0..MaxHistory }
\* a history that is not an array, whatever it holds
NotArray == <<NullEntry>>
Throws(r) == r.historyIsArray /\ \E i \in 1..Len(r.history) : r.history[i] = NullEntry

\* lines 31-34: history.map(...), or [] when history is not an array
mapHistory(r, limit) ==
  IF ~r.historyIsArray THEN <<>>
  ELSE LET h == r.history
       IN  [i \in 1..Len(h) |->
              [role |-> IF h[i].role = "user" THEN "user" ELSE "model",
               parts |-> [j \in 1..Len(h[i].parts) |->
                            [text |-> SliceHead(h[i].parts[j].text, limit)]]]]

\* a handler that adds the placeholder to an empty conversation only
withPlaceholderIfEmpty(cs) == IF cs = <<>> THEN <<Placeholder>> ELSE cs
\* lines 36-38
withPlaceholder(cs) ==
  IF cs = <<>> \/ cs[Len(cs)].role # "user" THEN Append(cs, Placeholder) ELSE cs

GemRequest ==
  [method |-> "POST", hasKey |-> TRUE, bodyOk |-> TRUE, history |-> <<>>,
   historyIsArray |-> TRUE, custom |-> "", variant |-> 1]
GemRequests ==
  {[GemRequest EXCEPT !.method = m, !.variant = v] : m \in {"OPTIONS", "GET"}, v \in {1, 2}}
  \cup {[GemRequest EXCEPT !.hasKey = FALSE, !.variant = v] : v \in {1, 2}}
  \cup {[GemRequest EXCEPT !.bodyOk = FALSE, !.variant = v] : v \in {1, 2}}
  \cup {[GemRequest EXCEPT !.history = NotArray, !.historyIsArray = FALSE,
                           !.variant = v] : v \in {1, 2}}
  \cup {[GemRequest EXCEPT !.history = h, !.custom = c, !.variant = v] :
          h \in Histories, c \in {"", "my-model", "gemini-1.5-flash"}, v \in {1, 2}}

\* what a fetch of tryOnce can come to: status 0 is a network error or the
\* abort; a 200 carries a body that is JSON or not, and the text of its first
\* candidate, which may be empty
GemOutcomes ==
  { [status |-> 200, json |-> TRUE, text |-> <<"a">>],
    [status |-> 200, json |-> TRUE, text |-> <<>>],
    [status |-> 200, json |-> FALSE, text |-> <<>>],
    [status |-> 400, json |-> TRUE, text |-> <<>>],
    [status |-> 429, json |-> TRUE, text |-> <<>>],
    [status |-> 500, json |-> TRUE, text |-> <<>>],
    [status |-> 0, json |-> FALSE, text |-> <<>>] }
\* tryOnce (lines 60-73): the text, or the message of the error thrown
tryOnce(o) ==
  IF o.status = 0 THEN [ok |-> FALSE, text |-> <<>>, message |-> "network"]
  ELSE IF ~(o.status \in 200..299)
  THEN [ok |-> FALSE, text |-> <<>>, message |-> "status"]
  ELSE IF ~o.json THEN [ok |-> FALSE, text |-> <<>>, message |-> "JSON.parse"]
  ELSE IF o.text = <<>> THEN [ok |-> FALSE, text |-> <<>>, message |-> "Empty response"]
  ELSE [ok |-> TRUE, text |-> o.text, message |-> ""]

NoReply == [statusCode |-> 0, text |-> <<>>, error |-> "", last |-> NoEnd]
GemReturn(r) ==
  /\ pc' = "done"
  /\ ipc' = "none"
  /\ resp' = r
\* the variables the history handler has no use for
gemIdle == <<bucket, first, text, chunks, tries, lastCall, atEval, rvars>>

GemInit ==
  /\ pc = "idle" /\ ipc = "none"
  /\ req = GemRequest
  /\ bucket = NoBucket /\ now = 0 /\ mi = 0
  /\ inv = [model |-> "", attempt |-> 0]
  /\ first = NoResult /\ text = <<>> /\ chunks = 0
  /\ contents = <<>>
  /\ resp = NoReply
  /\ tries = 0 /\ tried = <<>> /\ lastCall = NoCall /\ lastEnd = NoEnd
  /\ atEval = "none"
  /\ events = <<>> /\ buffer = <<>> /\ sinceHb = 0 /\ reads = 0
  /\ received = <<>> /\ firstWait = 0

\* a call of tryOnce / fetch is issued for model m
GemCall(i, m, attempt) ==
  /\ mi' = i
  /\ inv' = [model |-> m, attempt |-> attempt]
  /\ tried' = Append(tried, [model |-> m, attempt |-> attempt])
  /\ ipc' = "inflight"

\* the handler up to its first fetch (lines 22-38 and 77-81; 111-150)
GemReceive ==
  /\ pc = "idle"
  /\ \E r \in GemRequests :
       /\ req' = r
       /\ IF r.method = "OPTIONS"
          THEN GemReturn([NoReply EXCEPT !.statusCode = 200])
               /\ UNCHANGED <<mi, inv, tried, contents>>
          ELSE IF r.method # "POST"
          THEN GemReturn([NoReply EXCEPT !.statusCode = 405, !.error = "Method not allowed"])
               /\ UNCHANGED <<mi, inv, tried, contents>>
          ELSE IF ~r.hasKey
          THEN GemReturn([NoReply EXCEPT !.statusCode = 500, !.error = "Missing GEMINI_API_KEY"])
               /\ UNCHANGED <<mi, inv, tried, contents>>
          ELSE IF ~r.bodyOk \/ Throws(r)
          THEN GemReturn([NoReply EXCEPT !.statusCode = 500, !.error = "thrown"])
               /\ UNCHANGED <<mi, inv, tried, contents>>
          ELSE IF r.variant = 1
          THEN /\ contents' = withPlaceholder(mapHistory(r, GEM_PART_CHARS))
               /\ pc' = "try"
               /\ GemCall(1, CANDIDATES(r.custom)[1], 0)
               /\ UNCHANGED resp
          ELSE /\ contents' = withPlaceholder(mapHistory(r, GEM_PART_CHARS_2))
               /\ pc' = "single"
               /\ GemCall(1, MODEL(r.custom), 0)
               /\ UNCHANGED resp
  /\ UNCHANGED <<now, lastEnd, gemIdle>>

\* tryOnce returns the text: line 82
GemAttemptSucceeds ==
  /\ pc = "try" /\ ipc = "inflight"
  /\ \E o \in GemOutcomes :
       /\ tryOnce(o).ok
       /\ GemReturn([NoReply EXCEPT !.statusCode = 200, !.text = tryOnce(o).text])
  /\ UNCHANGED <<req, now, mi, inv, tried, contents, lastEnd, gemIdle>>

\* tryOnce throws: lastErr is written and the backoff timer set (lines 84-85)
GemAttemptFails ==
  /\ pc = "try" /\ ipc = "inflight"
  /\ \E o \in GemOutcomes :
       /\ ~tryOnce(o).ok
       /\ lastEnd' = [model |-> inv.model, attempt |-> inv.attempt + 1,
                      message |-> tryOnce(o).message]
  /\ ipc' = "sleeping"
  /\ UNCHANGED <<pc, req, now, mi, inv, tried, contents, resp, gemIdle>>

\* a loop that gives each model one attempt
GemBackoffEndsOneAttempt ==
  /\ pc = "try" /\ ipc = "sleeping"
  /\ now' = now + GEM_BACKOFF_MS * (inv.attempt + 1)
  /\ IF mi < Len(CANDIDATES(req.custom))
     THEN /\ GemCall(mi + 1, CANDIDATES(req.custom)[mi + 1], 0)
          /\ UNCHANGED <<pc, resp>>
     ELSE /\ GemReturn([NoReply EXCEPT !.statusCode = 502,
                                       !.error = "All models failed", !.last = lastEnd])
          /\ UNCHANGED <<mi, inv, tried>>
  /\ UNCHANGED <<req, contents, lastEnd, gemIdle>>

\* the backoff ends: the next attempt, the next model, or line 89
GemBackoffEnds ==
  /\ pc = "try" /\ ipc = "sleeping"
  /\ now' = now + GEM_BACKOFF_MS * (inv.attempt + 1)
  /\ IF inv.attempt + 1 < GEM_ATTEMPTS
     THEN /\ GemCall(mi, inv.model, inv.attempt + 1)
          /\ UNCHANGED <<pc, resp>>
     ELSE IF mi < Len(CANDIDATES(req.custom))
     THEN /\ GemCall(mi + 1, CANDIDATES(req.custom)[mi + 1], 0)
          /\ UNCHANGED <<pc, resp>>
     ELSE /\ GemReturn([NoReply EXCEPT !.statusCode = 502,
                                       !.error = "All models failed", !.last = lastEnd])
          /\ UNCHANGED <<mi, inv, tried>>
  /\ UNCHANGED <<req, contents, lastEnd, gemIdle>>

\* the one fetch of the second variant settles (lines 150-174)
GemSingleReturns ==
  /\ pc = "single" /\ ipc = "inflight"
  /\ \E o \in GemOutcomes :
       GemReturn(IF o.status = 0
                 THEN [NoReply EXCEPT !.statusCode = 500, !.error = "thrown"]
                 ELSE IF ~(o.status \in 200..299)
                 THEN [NoReply EXCEPT !.statusCode = 502, !.error = "Gemini error"]
                 ELSE IF ~o.json
                 THEN [NoReply EXCEPT !.statusCode = 500, !.error = "thrown"]
                 ELSE IF o.text = <<>>
                 THEN [NoReply EXCEPT !.statusCode = 502,
                                      !.error = "Empty response from model"]
                 ELSE [NoReply EXCEPT !.statusCode = 200, !.text = o.text])
  /\ UNCHANGED <<req, now, mi, inv, tried, contents, lastEnd, gemIdle>>

GemNext ==
  \/ GemReceive
  \/ GemAttemptSucceeds
  \/ GemAttemptFails
  \/ GemBackoffEnds
  \/ GemSingleReturns
GemSpec == GemInit /\ [][GemNext]_vars

\* the models of the request in hand, and the k-th call of the loop over them
GemCands == CANDIDATES(req.custom)
CallNo(k) == [model |-> GemCands[(k + 1) \div 2], attempt |-> (k - 1) % 2]
\* the first variant's loop is running or has returned
InLoop == req.variant = 1 /\ tried # <<>>

\* C39: the calls of the first variant are, in order, two attempts on each
\* model of CANDIDATES, the models in list order; a failed call of whatever
\* kind is followed by a wait of 400 ms times its attempt number and then by
\* the next call of that order; a successful call is followed by the 200 and
\* by no call; and the 502 comes after the second attempt on the last model
\* failed, 2 * |CANDIDATES| calls having been made, and names that model and
\* attempt 2.
C39_TwoAttemptsPerModel ==
  /\ [](InLoop =>
          /\ Len(tried) <= GEM_ATTEMPTS * Len(GemCands)
          /\ \A k \in 1..Len(tried) : tried[k] = CallNo(k)
          /\ (pc = "done" =>
                \/ resp.statusCode = 200 /\ resp.text # <<>>
                \/ /\ resp.statusCode = 502
                   /\ Len(tried) = GEM_ATTEMPTS * Len(GemCands)
                   /\ resp.last.model = GemCands[Len(GemCands)]
                   /\ resp.last.attempt = GEM_ATTEMPTS
                   /\ now = Len(GemCands) * (GEM_BACKOFF_MS + 2 * GEM_BACKOFF_MS)))
  /\ [][ (pc = "try" /\ ipc = "inflight") =>
           \/ ipc' = "sleeping" /\ tried' = tried /\ pc' = "try" /\ now' = now
              /\ lastEnd'.model = inv.model /\ lastEnd'.attempt = inv.attempt + 1
           \/ pc' = "done" /\ resp'.statusCode = 200 /\ tried' = tried ]_vars
  /\ [][ (pc = "try" /\ ipc = "sleeping") =>
           /\ now' = now + GEM_BACKOFF_MS * lastEnd.attempt
           /\ \/ Len(tried') = Len(tried) + 1 /\ ipc' = "inflight"
              \/ pc' = "done" /\ resp'.statusCode = 502 /\ tried' = tried ]_vars
\* C39 happens: with a custom model, six calls failed, the last by an empty
\* response, and the 502 was returned
C39_Witness ==
  /\ pc = "done" /\ req.variant = 1 /\ resp.statusCode = 502
  /\ Len(tried) = 6
  /\ resp.last.message = "Empty response"

\* the entries history.map runs over
HistoryLen == IF req.historyIsArray THEN Len(req.history) ELSE 0

\* C40: in both variants, once a call has been issued the conversation it
\* carries has a turn, ends with a user turn and holds user and model roles
\* only; its turns are those of the history, one for one, a turn being a user
\* turn exactly when the entry's role is user, followed by the placeholder
\* user turn, once, exactly when the history gives no turn or its last entry
\* is not a user entry; and the conversation is the same for every call of the
\* request.
C40_ConversationEndsWithUser ==
  /\ [](tried # <<>> =>
          /\ contents # <<>>
          /\ contents[Len(contents)].role = "user"
          /\ \A i \in 1..Len(contents) : contents[i].role \in {"user", "model"}
          /\ \A i \in 1..HistoryLen :
               /\ i <= Len(contents)
               /\ (contents[i].role = "user") = (req.history[i].role = "user")
               /\ Len(contents[i].parts) = Len(req.history[i].parts)
          /\ IF HistoryLen = 0 \/ req.history[HistoryLen].role # "user"
             THEN contents = SubSeq(contents, 1, HistoryLen) \o <<Placeholder>>
             ELSE Len(contents) = HistoryLen)
  /\ [][ tried # <<>> => contents' = contents ]_vars
\* C40 happens: the history of the second variant ended with an assistant
\* entry, and the call carried its two turns and the placeholder
C40_Witness ==
  /\ req.variant = 2 /\ pc = "single"
  /\ HistoryLen = 2 /\ req.history[1].role = "user" /\ req.history[2].role = "assistant"
  /\ Len(contents) = 3 /\ contents[2].role = "model"
====
